---- MODULE Spec2Model ----
(***************************************************************************)
(* A model of the workflow orchestrator: the workflow engine and its       *)
(* correlation-id cache (core/workflow_engine.py), the delta checkpoint    *)
(* journal (ai/graph/checkpoint.py) and the graph runtime with its SQLite  *)
(* checkpointer (ai/graph/core_graph.py, ai/graph/run.py).                 *)
(*                                                                         *)
(* Further components: the GPU lock (ai/graph/gpu_lock.py), the model      *)
(* router and the schema registry (ai/adapters), the tool-call bridge      *)
(* (ai/graph/bridge.py) and the planner, decider, executor and reporter    *)
(* nodes (ai/graph/nodes).                                                 *)
(*                                                                         *)
(* Each component has its own specification (SpecEngine, SpecCkpt,         *)
(* SpecGraph, SpecGpu, SpecRouter, SpecBridge, SpecSubmitAndWait,          *)
(* SpecNodes, SpecRegistry); the variables of the other components stay    *)
(* at their initial values.                                                *)
(***************************************************************************)
EXTENDS Integers, Sequences, FiniteSets, TLC

VARIABLES
    \* ---- WorkflowEngine (one process) ----
    executions,     \* WorkflowEngine.executions: correlation id -> cached result
    backendCalls,   \* history: correlation id -> number of _execute_workflow calls begun
    autoIds,        \* history: number of correlation ids generated so far
    \* ---- callers of WorkflowEngine.submit ----
    tpc,            \* task -> "idle" | "executing" | "returned"
    tcall,          \* task -> the arguments of its submit in progress
    tres,           \* task -> the value its submit returned
    overlap,        \* history: task -> tasks that were executing the same id when it began
    submits,        \* number of submit calls begun
    \* ---- DeltaCheckpointer: the journal of one session and the objects on it ----
    journal,        \* {session_id}.jsonl: the sequence of its lines (<<>>: no file)
    tmpFile,        \* {session_id}.tmp: its lines, or None when there is none
    persisted,      \* history: the state the journal stands for
    cached,         \* object -> _cached_state
    lock,           \* object -> the task holding _lock, or NoTask
    waiters,        \* object -> the tasks waiting in _lock.acquire(), first in first out
    cpc,            \* task -> where its call stands
    ccall,          \* task -> the call: op, obj, new_state, and the state persisted then
    cres,           \* task -> the value aget returned to it
    interrupted,    \* history: the aput calls cut short by the last crash
    ckptOps,        \* number of aget and aput calls begun
    crashes,        \* number of crashes of the process
    \* ---- graph runtime: PersistentCheckpointer, StateGraph.ainvoke, GraphRunner ----
    db,             \* the checkpoints table: its rows in insertion order
    clock,          \* the second CURRENT_TIMESTAMP shows
    reports,        \* session -> the report file report_node wrote, or None
    runKeys,        \* the run-key store: run key -> the payload stored for it
    sessions,       \* GraphRunner.sessions: session id -> status
    rpc,            \* where the run stands: idle, load, loop, backend, save, returned
    rcall,          \* the call in progress: kind, session, goal, and history fields
    rstate,         \* ainvoke's state
    rnode,          \* ainvoke's current_node
    visited,        \* ainvoke's visited
    rresult,        \* what the call returned
    reentry,        \* history: the checkpoint the run was re-entered from
    firstRun,       \* history: session -> goal and result of its first completed start
    runs,           \* number of start_graph and resume_graph calls begun
    \* ---- GPU lock: the _FamilyLock of each family and the tasks using it ----
    gqueue,         \* family -> _queue
    gholder,        \* family -> _holder_session
    gholderAt,      \* family -> _holder_acquired_at
    gpc,            \* task -> idle, waiting, granted (future set), body, cancelled
    gcall,          \* task -> family, session and ticket of its gpu_lock
    gnow,           \* time.time(), in ticks
    gtickets,       \* number of acquire calls begun; the n-th has ticket n
    gserving,       \* history: family -> ticket of the entry granted last (0: none)
    gcancelled,     \* history: family -> a task was cancelled while it waited for it
    \* ---- ModelRouter and one caller of planner / exec ----
    providers,      \* ModelRouter.providers: the names that were initialised
    current_policy, \* ModelRouter.current_policy
    max_attempts,   \* config routing.retry.max_attempts
    failing,        \* the providers whose achat raises (the mocks' side_effect)
    mpc,            \* where the call stands: idle, loop, attempt, raise
    mrole,          \* the role of the call in progress
    fallback_level, \* _execute_with_fallback's fallback_level
    attempt,        \* _execute_with_fallback's attempt
    last_error,     \* _execute_with_fallback's last_error
    routing_result, \* _execute_with_fallback's routing_result
    mresult,        \* what the last call returned or raised
    mnow,           \* seconds slept so far
    invokes,        \* number of planner / exec calls begun
    achatCalls,     \* history: provider -> achat calls during the present call
    failedAt,       \* history: provider -> times of its failed achat calls in a row
    \* ---- GraphEngineBridge: two instances and their callers ----
    bcall,          \* bridge -> the tool call it converted last
    bsteps,         \* bridge -> the StepSpec list tool_call_to_steps returned for it
    converts,       \* number of tool_call_to_steps calls
    waits,          \* number of submit_and_wait calls
    bengine,        \* history: what the engine returned to the last submit_and_wait
    bresult,        \* the ToolResult the last submit_and_wait returned
    \* ---- the node classes: one session and the runtime calling the nodes ----
    nstate,         \* the GraphState of the session
    npc,            \* the node to run: planner, decider, executor, service, reporter, end
    ndecision,      \* the dict the decider returned last
    nbad,           \* the ids of the plan items whose arguments fail validation
    nticks,         \* number of executor calls begun
    ninvoked,       \* history: ids of the items a backend was invoked for
    nrejected,      \* history: ids of the items whose arguments were rejected
    max_steps,      \* DeciderNode.max_steps, read from the graph config
    \* ---- SchemaRegistry and its callers ----
    _schemas,       \* SchemaRegistry._schemas: name -> RegisteredSchema
    _version_history, \* SchemaRegistry._version_history: name -> (version, definition) list
    registers,      \* number of register calls
    last_register,  \* history: name, version and definition of the last register call
    got             \* name, version and result of the last get call

engineVars == <<executions, backendCalls, autoIds>>
taskVars == <<tpc, tcall, tres, overlap, submits>>
diskVars == <<journal, tmpFile, persisted>>
ckptVars == <<diskVars, cached, lock, waiters, cpc, ccall, cres, interrupted, ckptOps>>
storeVars == <<db, clock, reports, runKeys>>
runVars == <<sessions, rpc, rcall, rstate, rnode, visited, rresult, reentry, firstRun, runs>>
graphVars == <<storeVars, runVars>>
gpuVars == <<gqueue, gholder, gholderAt, gpc, gcall, gnow, gtickets, gserving,
             gcancelled>>
routerVars == <<providers, current_policy, max_attempts, failing, mpc, mrole,
                fallback_level, attempt, last_error, routing_result, mresult, mnow,
                invokes, achatCalls, failedAt>>

\* ------------------------------------------------------------------------
\* Values
\* ------------------------------------------------------------------------

\* Python's None
None == [none |-> TRUE]

Min(a, b) == IF a < b THEN a ELSE b

\* dict.get(key, default)
Get(d, k, default) == IF k \in DOMAIN d THEN d[k] ELSE default

\* dict.update(other): the keys of other override
Update(d, other) ==
    [k \in DOMAIN d \cup DOMAIN other |-> IF k \in DOMAIN other THEN other[k] ELSE d[k]]

\* the empty dict
EmptyDict == [k \in {} |-> None]

\* ------------------------------------------------------------------------
\* WorkflowEngine._execute_workflow
\* ------------------------------------------------------------------------

\* A string value is the sequence of its characters.
Str(chars) == [str |-> chars]
IsStr(v) == DOMAIN v = {"str"}

\* the slice bound of params.get('prompt', 'image')[:20]
PromptChars == 20

\* str[:20].replace(' ', '_')
PromptStem(p) ==
    LET cut == SubSeq(p.str, 1, Min(PromptChars, Len(p.str)))
    IN  [i \in 1..Len(cut) |-> IF cut[i] = " " THEN "_" ELSE cut[i]]

\* A path artifacts_dir / "<prefix><stem>.png"; Path(p).stem is prefix \o stem.
Png(stem) == [dir |-> "artifacts", stem |-> stem, ext |-> "png"]
IsPath(v) == DOMAIN v = {"dir", "stem", "ext"}

\* One step of the loop of _execute_workflow: the step's output, or Raised
\* when the body of the try raises.
Raised == [raised |-> TRUE]

StepOutput(step, context, outputs) ==
    LET params == Update(step.params, context)
    IN  IF step.type = "txt2img"
        THEN LET prompt == Get(params, "prompt", Str(<<"i", "m", "a", "g", "e">>))
             IN  IF IsStr(prompt)
                 THEN [image_path |-> Png(<<"generated_">> \o PromptStem(prompt)),
                       prompt |-> prompt]
                 ELSE Raised
        ELSE IF step.type = "upscale"
        THEN LET from == Get(params, "from_step", "")
                 prev == Get(outputs, from, EmptyDict)
                 input_image == Get(params, "input", Get(prev, "image_path", None))
             IN  IF input_image = None
                 THEN [image_path |-> Png(<<"upscaled_", "image">>),
                       scale |-> Get(params, "scale", 2)]
                 ELSE IF IsPath(input_image)
                 THEN [image_path |-> Png(<<"upscaled_">> \o input_image.stem),
                       scale |-> Get(params, "scale", 2)]
                 ELSE Raised
        ELSE [result |-> <<"Executed", step.type>>]

RECURSIVE RunSteps(_, _, _, _)
RunSteps(steps, i, context, outputs) ==
    IF i > Len(steps)
    THEN [status |-> "success", outputs |-> outputs]
    ELSE LET out == StepOutput(steps[i], context, outputs)
         IN  IF out = Raised
             THEN [status |-> "error", failed_step |-> steps[i].name,
                   partial_outputs |-> outputs]
             ELSE RunSteps(steps, i + 1, context,
                           Update(outputs, [k \in {steps[i].name} |-> out]))

ExecuteWorkflow(spec, context) ==
    LET r == RunSteps(spec.steps, 1, context, EmptyDict)
    IN  IF r.status = "success"
        THEN [status |-> "success", outputs |-> r.outputs, workflow |-> spec.name]
        ELSE [status |-> "error", failed_step |-> r.failed_step,
              error |-> "exception", partial_outputs |-> r.partial_outputs]

\* ------------------------------------------------------------------------
\* The inputs of submit
\* ------------------------------------------------------------------------

Step(name, type, params) == [name |-> name, type |-> type, params |-> params]

GenStep(prompt) == Step("gen", "txt2img", [prompt |-> prompt])

WfImageUp ==
    [name |-> "image_up",
     steps |-> <<GenStep(Str(<<"a", " ", "b">>)),
                 Step("up", "upscale", [from_step |-> "gen"])>>]
WfBadPrompt == [name |-> "bad", steps |-> <<GenStep(None)>>]
WfOther == [name |-> "other", steps |-> <<Step("run", "custom", EmptyDict)>>]

\* a YAML text that yaml.safe_load rejects
BadYaml == [yaml |-> "rejected"]

Workflows == {WfImageUp, WfBadPrompt, WfOther, BadYaml}

Contexts == {EmptyDict, [prompt |-> Str(<<"c">>)]}

\* correlation_id=None
NoCid == None
CorrIds == {[given |-> "c1"], [given |-> "c2"]}

Tasks == {"t1", "t2"}

MaxSubmits == 3

\* ------------------------------------------------------------------------
\* WorkflowEngine.submit
\*
\* The callers are workers running in parallel on one engine.  The awaited
\* _execute_workflow is where the services run: a caller is suspended there
\* and the other callers run meanwhile.
\* ------------------------------------------------------------------------

Calls(cid) == Get(backendCalls, cid, 0)

\* hashlib.md5(f"{spec}{datetime.now().isoformat()}"): a fresh id per call
GenerateId(n) == [md5 |-> n]

\* a lookup in self.workflows, the registry, instead of self.executions
CacheHitInWorkflows(cid) == cid \in DOMAIN EmptyDict

\* `if correlation_id in self.executions`
CacheHit(cid) == cid \in DOMAIN executions

\* hit: the call returned the cached result (history)
NoCall == [workflow |-> None, cid |-> None, context |-> None, hit |-> FALSE]

\* submit up to its first suspension: parse, make the id, look in the cache
\* and either return or begin `await self._execute_workflow(spec, context)`.
SubmitBegin(t, workflow, correlation_id, context) ==
    /\ tpc[t] = "idle"
    /\ submits < MaxSubmits
    /\ submits' = submits + 1
    /\ IF workflow = BadYaml
       THEN /\ tres' = [tres EXCEPT ![t] = [status |-> "error", error |-> "yaml"]]
            /\ tpc' = [tpc EXCEPT ![t] = "returned"]
            /\ tcall' = [tcall EXCEPT ![t] =
                            [workflow |-> workflow, cid |-> None, context |-> context,
                             hit |-> FALSE]]
            /\ overlap' = [overlap EXCEPT ![t] = {}]
            /\ UNCHANGED engineVars
       ELSE LET cid == IF correlation_id = NoCid
                       THEN GenerateId(autoIds) ELSE correlation_id
            IN  /\ autoIds' = IF correlation_id = NoCid THEN autoIds + 1 ELSE autoIds
                /\ tcall' = [tcall EXCEPT ![t] =
                                [workflow |-> workflow, cid |-> cid, context |-> context,
                                 hit |-> CacheHit(cid)]]
                /\ overlap' = [overlap EXCEPT ![t] =
                                  {u \in Tasks \ {t} :
                                      tpc[u] = "executing" /\ tcall[u].cid = cid}]
                /\ IF CacheHit(cid)
                   THEN /\ tres' = [tres EXCEPT ![t] = executions[cid]]
                        /\ tpc' = [tpc EXCEPT ![t] = "returned"]
                        /\ UNCHANGED <<executions, backendCalls>>
                   ELSE /\ tpc' = [tpc EXCEPT ![t] = "executing"]
                        /\ backendCalls' =
                               Update(backendCalls, [k \in {cid} |-> Calls(cid) + 1])
                        /\ UNCHANGED <<executions, tres>>

\* the execution ends: `self.executions[correlation_id] = result; return result`
SubmitFinish(t) ==
    /\ tpc[t] = "executing"
    /\ LET result == ExecuteWorkflow(tcall[t].workflow, tcall[t].context)
       IN  /\ executions' = Update(executions, [k \in {tcall[t].cid} |-> result])
           /\ tres' = [tres EXCEPT ![t] = result]
    /\ tpc' = [tpc EXCEPT ![t] = "returned"]
    /\ UNCHANGED <<backendCalls, autoIds, tcall, overlap, submits>>

\* the caller takes the returned value and may call submit again
TakeResult(t) ==
    /\ tpc[t] = "returned"
    /\ tpc' = [tpc EXCEPT ![t] = "idle"]
    /\ tcall' = [tcall EXCEPT ![t] = NoCall]
    /\ tres' = [tres EXCEPT ![t] = None]
    /\ overlap' = [u \in Tasks |-> IF u = t THEN {} ELSE overlap[u] \ {t}]
    /\ UNCHANGED <<engineVars, submits>>

EngineInit ==
    /\ executions = EmptyDict
    /\ backendCalls = EmptyDict
    /\ autoIds = 0

TasksInit ==
    /\ tpc = [t \in Tasks |-> "idle"]
    /\ tcall = [t \in Tasks |-> NoCall]
    /\ tres = [t \in Tasks |-> None]
    /\ overlap = [t \in Tasks |-> {}]
    /\ submits = 0


\* ------------------------------------------------------------------------
\* DeltaCheckpointer (ai/graph/checkpoint.py)
\*
\* The callers are tasks of one asyncio event loop: a task runs without
\* interruption from one suspension to the next, and the only suspension in
\* aget and aput is the wait in `async with self._lock` (asyncio.Lock, which
\* is not reentrant).  A crash ends the process at any point between steps.
\* ------------------------------------------------------------------------

\* the objects opened on the session: DeltaCheckpointer("s1"), twice
Ckpts == {"o1", "o2"}
CkptSession(o) == "s1"

NoTask == "NoTask"

MaxCkptOps == 3
MaxCrashes == 1

\* the states handed to aput
SA == [session_id |-> "s1", current_step |-> 0, status |-> "planning"]
SB == [session_id |-> "s1", current_step |-> 1, status |-> "executing"]
SC == [current_step |-> 2]
NewStates == {SA, SB, SC}

\* a line of the journal: {"id": ..., "ts": ..., "delta": ...} (ts is not modelled)
Rec(id, delta) == [id |-> id, delta |-> delta]
\* a line json.loads rejects
CorruptLine == [corrupt |-> TRUE]
IsCorrupt(line) == DOMAIN line = {"corrupt"}

\* new_state.get("session_id", "unknown") + f":{new_state.get('current_step', 0)}"
RecordId(new_state) ==
    <<Get(new_state, "session_id", "unknown"), Get(new_state, "current_step", 0)>>

\* _dict_diff: the keys of new that old lacks or maps to another value
DictDiff(old, new) ==
    [k \in {x \in DOMAIN new : x \notin DOMAIN old \/ old[x] # new[x]} |-> new[k]]

\* the loop of aget: apply every delta in file order, skipping corrupt lines
RECURSIVE ReplayFrom(_, _, _)
ReplayFrom(lines, i, state) ==
    IF i > Len(lines)
    THEN state
    ELSE ReplayFrom(lines, i + 1,
                    IF IsCorrupt(lines[i]) THEN state ELSE Update(state, lines[i].delta))

\* a replay that keeps only the delta of the last line
ReplayLastDelta(lines) ==
    IF lines = <<>> THEN EmptyDict ELSE ReplayFrom(lines, Len(lines), EmptyDict)

Replay(lines) == ReplayFrom(lines, 1, EmptyDict)

\* what the body of aget returns, and leaves in _cached_state
AgetValue(o) ==
    IF cached[o] # None THEN cached[o]
    ELSE IF journal = <<>> THEN None
    ELSE Replay(journal)

\* Lock.acquire takes the lock at once iff it is free and nobody waits for it
LockFree(o) == lock[o] = NoTask /\ waiters[o] = <<>>

NoCkptCall == [op |-> "none", obj |-> "none", new_state |-> None, before |-> None]

Waiting == {"aget_wait", "aput_wait", "aput_aget_wait"}

\* aget, called by a task: the body runs at once when the lock is free
AgetCall(t, o) ==
    /\ cpc[t] = "idle"
    /\ ckptOps < MaxCkptOps
    /\ ckptOps' = ckptOps + 1
    /\ ccall' = [ccall EXCEPT ![t] =
                    [op |-> "aget", obj |-> o, new_state |-> None, before |-> persisted]]
    /\ IF LockFree(o)
       THEN /\ cached' = [cached EXCEPT ![o] = AgetValue(o)]
            /\ cres' = [cres EXCEPT ![t] = AgetValue(o)]
            /\ cpc' = [cpc EXCEPT ![t] = "returned"]
            /\ UNCHANGED waiters
       ELSE /\ waiters' = [waiters EXCEPT ![o] = Append(@, t)]
            /\ cpc' = [cpc EXCEPT ![t] = "aget_wait"]
            /\ UNCHANGED <<cached, cres>>
    /\ UNCHANGED <<diskVars, lock, interrupted>>

\* aput, called by a task: it takes the lock and calls self.aget(), whose
\* own `async with self._lock` then waits for the lock the task holds
AputCall(t, o, new_state) ==
    /\ cpc[t] = "idle"
    /\ ckptOps < MaxCkptOps
    /\ ckptOps' = ckptOps + 1
    /\ ccall' = [ccall EXCEPT ![t] =
                    [op |-> "aput", obj |-> o, new_state |-> new_state,
                     before |-> persisted]]
    /\ interrupted' = {}
    /\ waiters' = [waiters EXCEPT ![o] = Append(@, t)]
    /\ IF LockFree(o)
       THEN /\ lock' = [lock EXCEPT ![o] = t]
            /\ cpc' = [cpc EXCEPT ![t] = "aput_aget_wait"]
       ELSE /\ cpc' = [cpc EXCEPT ![t] = "aput_wait"]
            /\ UNCHANGED lock
    /\ UNCHANGED <<diskVars, cached, cres>>

\* _write_lines, first half: tmp_path.write_text("\n".join(lines) + "\n")
WriteTmp(lines) == lines

\* A task runs on: a waiter the released lock woke, or an aput between the
\* write of the tmp file and its rename.
Resume(t) ==
    LET o == ccall[t].obj
        base == IF AgetValue(o) = None THEN EmptyDict ELSE AgetValue(o)
        delta == DictDiff(base, ccall[t].new_state)
    IN
    /\ \/ /\ cpc[t] \in Waiting
          /\ lock[o] = NoTask
          /\ waiters[o] # <<>>
          /\ Head(waiters[o]) = t
       \/ cpc[t] = "aput_replace"
    /\ CASE cpc[t] = "aget_wait" ->
              \* acquire, body, release
              /\ waiters' = [waiters EXCEPT ![o] = Tail(@)]
              /\ cached' = [cached EXCEPT ![o] = AgetValue(o)]
              /\ cres' = [cres EXCEPT ![t] = AgetValue(o)]
              /\ cpc' = [cpc EXCEPT ![t] = "returned"]
              /\ UNCHANGED <<diskVars, lock>>
         [] cpc[t] = "aput_wait" ->
              \* acquire, then wait in the aget it calls
              /\ lock' = [lock EXCEPT ![o] = t]
              /\ waiters' = [waiters EXCEPT ![o] = Append(Tail(@), t)]
              /\ cpc' = [cpc EXCEPT ![t] = "aput_aget_wait"]
              /\ UNCHANGED <<diskVars, cached, cres>>
         [] cpc[t] = "aput_aget_wait" ->
              \* the aget it called takes and releases the lock; aput goes on
              \* to the diff and the tmp file
              /\ waiters' = [waiters EXCEPT ![o] = Tail(@)]
              /\ cached' = [cached EXCEPT ![o] = AgetValue(o)]
              /\ IF delta = EmptyDict
                 THEN \* no change: leave; Lock.release() of a free lock raises
                      /\ cpc' = [cpc EXCEPT ![t] = "raised"]
                      /\ UNCHANGED diskVars
                 ELSE /\ tmpFile' = WriteTmp(Append(journal,
                                        Rec(RecordId(ccall[t].new_state), delta)))
                      /\ cpc' = [cpc EXCEPT ![t] = "aput_replace"]
                      /\ UNCHANGED <<journal, persisted>>
              /\ UNCHANGED <<lock, cres>>
         [] cpc[t] = "aput_replace" ->
              \* tmp_path.replace(self._file_path); self._cached_state = copy;
              \* leaving the `async with` releases a free lock, which raises
              /\ journal' = tmpFile
              /\ tmpFile' = None
              /\ persisted' = ccall[t].new_state
              /\ cached' = [cached EXCEPT ![o] = ccall[t].new_state]
              /\ cpc' = [cpc EXCEPT ![t] = "raised"]
              /\ UNCHANGED <<lock, waiters, cres>>
    /\ UNCHANGED <<ccall, interrupted, ckptOps>>

\* The task is cancelled while it waits: CancelledError leaves acquire, and
\* the `async with` of aput, if it was entered, releases the lock.
Cancel(t) ==
    LET o == ccall[t].obj IN
    /\ cpc[t] \in Waiting
    /\ waiters' = [waiters EXCEPT ![o] = SelectSeq(@, LAMBDA u : u # t)]
    /\ lock' = IF cpc[t] = "aput_aget_wait" THEN [lock EXCEPT ![o] = NoTask] ELSE lock
    /\ cpc' = [cpc EXCEPT ![t] = "cancelled"]
    /\ UNCHANGED <<diskVars, cached, ccall, cres, interrupted, ckptOps>>

\* the caller takes the outcome of its call and may call again
CkptTake(t) ==
    /\ cpc[t] \in {"returned", "cancelled", "raised"}
    /\ cpc' = [cpc EXCEPT ![t] = "idle"]
    /\ ccall' = [ccall EXCEPT ![t] = NoCkptCall]
    /\ cres' = [cres EXCEPT ![t] = None]
    /\ UNCHANGED <<diskVars, cached, lock, waiters, interrupted, ckptOps>>

\* what a new process starts with: no object has read anything
CkptMemoryInit ==
    /\ cached = [o \in Ckpts |-> None]
    /\ lock = [o \in Ckpts |-> NoTask]
    /\ waiters = [o \in Ckpts |-> <<>>]
    /\ cpc = [t \in Tasks |-> "idle"]
    /\ ccall = [t \in Tasks |-> NoCkptCall]
    /\ cres = [t \in Tasks |-> None]

\* The process dies and a new one starts: the files stay, the memory is new.
CkptCrash ==
    /\ crashes < MaxCrashes
    /\ crashes' = crashes + 1
    /\ interrupted' =
           {[new_state |-> ccall[t].new_state, before |-> ccall[t].before] :
               t \in {u \in Tasks : ccall[u].op = "aput"
                                    /\ cpc[u] \in Waiting \cup {"aput_replace"}}}
    /\ cached' = [o \in Ckpts |-> None]
    /\ lock' = [o \in Ckpts |-> NoTask]
    /\ waiters' = [o \in Ckpts |-> <<>>]
    /\ cpc' = [t \in Tasks |-> "idle"]
    /\ ccall' = [t \in Tasks |-> NoCkptCall]
    /\ cres' = [t \in Tasks |-> None]
    /\ UNCHANGED <<diskVars, ckptOps>>

\* the journals a session may have when the process starts, each with the
\* state it stands for
InitJournals ==
    { [lines |-> <<>>, state |-> None],
      [lines |-> <<Rec(RecordId(SA), SA)>>, state |-> SA],
      [lines |-> <<Rec(RecordId(SA), SA), Rec(RecordId(SB), DictDiff(SA, SB))>>,
       state |-> SB],
      [lines |-> <<CorruptLine, Rec(RecordId(SA), SA)>>, state |-> SA] }

CkptInit ==
    /\ \E j \in InitJournals : journal = j.lines /\ persisted = j.state
    /\ tmpFile = None
    /\ CkptMemoryInit
    /\ interrupted = {}
    /\ ckptOps = 0

\* the checkpointer left alone
CkptQuiet ==
    /\ journal = <<>>
    /\ persisted = None
    /\ tmpFile = None
    /\ CkptMemoryInit
    /\ interrupted = {}
    /\ ckptOps = 0

\* ------------------------------------------------------------------------
\* Graph runtime (ai/graph/core_graph.py, ai/graph/run.py)
\*
\* One process runs one start_graph or resume_graph call at a time.  What
\* lives in memory (GraphRunner.sessions, WorkflowEngine.executions, the
\* run itself) is lost by a crash; the checkpoints table and the report
\* files stay.
\* ------------------------------------------------------------------------

Sessions == {"s1"}
Goals == {"image", "task"}
\* the user_context of a start: empty, or one whose prompt is None
UserContexts == {EmptyDict, [prompt |-> None]}

MaxRuns == 2
MaxClock == 1

END == "END"
NoError == "None"

\* plan_node: the plan depends on whether the goal names an image
PlanOf(goal) ==
    IF goal = "image"
    THEN <<"generate_image", "upscale_image", "save_artifact">>
    ELSE <<"analyze_request", "execute_task", "generate_response">>

\* start_graph's initial_state ("plan": None is the empty plan here: the
\* code reads the plan only after plan_node has set it)
InitialState(session_id, goal, user_context) ==
    [session_id |-> session_id, goal |-> goal, user_context |-> user_context,
     plan |-> <<>>, current_step |-> 0, execution_results |-> <<>>,
     artifacts |-> <<>>, status |-> "planning", error |-> NoError]

plan_node(state) ==
    [state EXCEPT !.plan = PlanOf(state.goal), !.current_step = 0,
                  !.status = "executing"]

\* a should_continue that sends a failed run back to the executor
should_continue_retrying(state) ==
    IF state.status = "completed" THEN "report"
    ELSE IF state.current_step < Len(state.plan) THEN "execute"
    ELSE "report"

\* should_continue
should_continue(state) ==
    IF state.status = "failed" THEN "report"
    ELSE IF state.status = "completed" THEN "report"
    ELSE IF state.current_step < Len(state.plan) THEN "execute"
    ELSE "report"

\* the edge table of create_graph: the node after `node` in `state`
NextNode(node, state) ==
    IF node = "plan" THEN "execute"
    ELSE IF node = "execute" THEN should_continue(state)
    ELSE END

\* -- execute_workflow_step: called by execute_node and by the tests, defined
\* -- nowhere in the sources; modelled from its callers and the specification

\* the run key of a step: "<session>:<step name>:<index>"
RunKey(session_id, step_name, index) ==
    [session |-> session_id, step |-> step_name, index |-> index]

StepType(step_name) ==
    IF step_name = "generate_image" THEN "txt2img"
    ELSE IF step_name = "upscale_image" THEN "upscale"
    ELSE step_name

\* the run-key store: get(key) finds a payload
RunKeyHit(key) == key \in DOMAIN runKeys

\* put(key, payload): insert-only, the first writer's payload stays
RunKeyPut(key, payload) ==
    IF key \in DOMAIN runKeys THEN runKeys
    ELSE Update(runKeys, [k \in {key} |-> payload])

\* the run-key insert after the engine returned: a failed step raises
\* and leaves no run key
StepPut(key, result) ==
    IF result.status = "error" THEN runKeys ELSE RunKeyPut(key, result)

\* the one-step workflow submitted for a plan step
StepWorkflow(step_name) ==
    [name |-> step_name, steps |-> <<Step(step_name, StepType(step_name), EmptyDict)>>]

\* the image path among the outputs of an engine result, or None
ArtifactPath(result, step_name) ==
    IF result.status = "success" /\ "image_path" \in DOMAIN result.outputs[step_name]
    THEN result.outputs[step_name].image_path
    ELSE None

\* -- execute_node

\* the step execute_node is about to run, and its run key
CurrentStep(state) == state.plan[state.current_step + 1]
CurrentKey(state) ==
    RunKey(state.session_id, CurrentStep(state), Len(state.execution_results))

NothingToExecute(state) == state.plan = <<>> \/ state.current_step >= Len(state.plan)

\* an execute_node that steps over the step after the one it ran
AfterStepSkipping(state, result) ==
    IF result.status = "error"
    THEN [state EXCEPT !.status = "failed", !.error = "exception"]
    ELSE [state EXCEPT !.execution_results = Append(@, result),
                       !.current_step = @ + 2]

\* execute_node once the engine has returned `result` for the current step:
\* an error result is the exception of the except branch
AfterStep(state, result) ==
    IF result.status = "error"
    THEN [state EXCEPT !.status = "failed", !.error = "exception"]
    ELSE LET path == ArtifactPath(result, CurrentStep(state))
             step == state.current_step + 1
         IN  [state EXCEPT
                 !.execution_results = Append(@, result),
                 !.artifacts = IF path # None THEN Append(@, path) ELSE @,
                 !.current_step = step,
                 !.status = IF step >= Len(state.plan) THEN "completed" ELSE @]

\* report_node's report
ReportOf(state) ==
    [session_id |-> state.session_id, goal |-> state.goal, status |-> state.status,
     steps_completed |-> state.current_step, total_steps |-> Len(state.plan),
     artifacts |-> state.artifacts, error |-> state.error]

\* -- PersistentCheckpointer

\* put: one row per checkpoint (each has a new uuid, so none is replaced);
\* created_at is CURRENT_TIMESTAMP, a whole second; the metadata column
\* names the node that returned the state
Row(thread_id, state, next_node, node) ==
    [thread_id |-> thread_id, created_at |-> clock, state |-> state,
     next_node |-> next_node, node |-> node]

RowsOf(thread_id) == {i \in 1..Len(db) : db[i].thread_id = thread_id}

\* get: ORDER BY created_at DESC LIMIT 1 -- any row of the newest second
Latest(thread_id) ==
    {db[i] : i \in {j \in RowsOf(thread_id) :
                       \A k \in RowsOf(thread_id) : db[k].created_at <= db[j].created_at}}

\* the row the most recent put for the thread stored
LastPut(thread_id) ==
    db[CHOOSE i \in RowsOf(thread_id) : \A k \in RowsOf(thread_id) : k <= i]

\* a checkpoint that records the entry point as the node to go on with
CheckpointEntryPoint(current_node, state) == "plan"

\* the "next_node" ainvoke stores with the state a node returned
CheckpointNode(current_node, state) == current_node

\* -- GraphRunner

NoRun == [kind |-> "none", session |-> "none", goal |-> "none",
          user_context |-> EmptyDict, had |-> FALSE, calls |-> EmptyDict,
          prior |-> None, rows |-> 0]
NoState == [none |-> TRUE]
NoResult == [status |-> "none"]

ResultOf(session_id, state) ==
    [session_id |-> session_id, status |-> state.status, artifacts |-> state.artifacts,
     execution_results |-> state.execution_results]

\* start_graph up to ainvoke
StartCall(session_id, goal, user_context) ==
    /\ rpc = "idle"
    /\ runs < MaxRuns
    /\ runs' = runs + 1
    /\ sessions' = Update(sessions, [k \in {session_id} |-> "running"])
    /\ rcall' = [kind |-> "start", session |-> session_id, goal |-> goal,
                 user_context |-> user_context,
                 had |-> RowsOf(session_id) # {}, calls |-> backendCalls,
                 prior |-> Get(firstRun, session_id, None), rows |-> Len(db)]
    /\ rstate' = InitialState(session_id, goal, user_context)
    /\ rnode' = "plan"
    /\ visited' = {}
    /\ rpc' = "load"
    /\ rresult' = NoResult
    /\ reentry' = NoState
    /\ UNCHANGED <<storeVars, firstRun, engineVars>>

\* resume_graph up to ainvoke; with additional_context the line
\* state.values["user_context"].update(...) raises, for state is a dict
ResumeCall(session_id, additional_context) ==
    /\ rpc = "idle"
    /\ runs < MaxRuns
    /\ runs' = runs + 1
    /\ rcall' = [kind |-> "resume", session |-> session_id, goal |-> "none",
                 user_context |-> additional_context,
                 had |-> RowsOf(session_id) # {}, calls |-> backendCalls,
                 prior |-> Get(firstRun, session_id, None), rows |-> Len(db)]
    /\ reentry' = NoState
    /\ IF session_id \notin DOMAIN sessions
       THEN /\ rresult' = [session_id |-> session_id, status |-> "error",
                           error |-> "Session not found"]
            /\ rpc' = "returned"
            /\ UNCHANGED <<rstate, rnode, visited>>
       ELSE IF RowsOf(session_id) = {}
       THEN /\ rresult' = [session_id |-> session_id, status |-> "error",
                           error |-> "No checkpoint found for session"]
            /\ rpc' = "returned"
            /\ UNCHANGED <<rstate, rnode, visited>>
       ELSE IF additional_context # EmptyDict
       THEN /\ rresult' = [session_id |-> session_id, status |-> "error",
                           error |-> "TypeError"]
            /\ rpc' = "returned"
            /\ UNCHANGED <<rstate, rnode, visited>>
       ELSE /\ rstate' = NoState
            /\ rnode' = "plan"
            /\ visited' = {}
            /\ rpc' = "load"
            /\ rresult' = NoResult
    /\ UNCHANGED <<storeVars, sessions, firstRun, engineVars>>

\* ainvoke: "Load checkpoint if available"
Load ==
    /\ rpc = "load"
    /\ IF RowsOf(rcall.session) = {}
       THEN UNCHANGED <<rstate, rnode, reentry>>
       ELSE \E cp \in Latest(rcall.session) :
               /\ rstate' = cp.state
               /\ rnode' = cp.next_node
               /\ reentry' = [node |-> cp.next_node, state |-> cp.state,
                              last |-> LastPut(rcall.session)]
    /\ rpc' = "loop"
    /\ UNCHANGED <<storeVars, sessions, rcall, visited, rresult, firstRun, runs,
                   engineVars>>

\* the call returns the final state of ainvoke
Return ==
    /\ rresult' = ResultOf(rcall.session, rstate)
    /\ sessions' = Update(sessions, [k \in {rcall.session} |-> rstate.status])
    /\ firstRun' = IF rcall.kind = "start" /\ rcall.session \notin DOMAIN firstRun
                   THEN Update(firstRun,
                               [k \in {rcall.session} |->
                                   [goal |-> rcall.goal,
                                    result |-> ResultOf(rcall.session, rstate)]])
                   ELSE firstRun
    /\ rpc' = "returned"

\* ainvoke's loop: leave it, or run the current node up to its suspension
Loop ==
    /\ rpc = "loop"
    /\ IF \/ rnode = END
          \/ rnode \in visited /\ rstate.current_step >= Len(rstate.plan)
       THEN /\ Return
            /\ UNCHANGED <<storeVars, rcall, rstate, rnode, visited, reentry, runs,
                           engineVars>>
       ELSE /\ visited' = visited \cup {rnode}
            /\ UNCHANGED <<db, clock, sessions, rcall, rnode, rresult, reentry,
                           firstRun, runs, autoIds>>
            /\ CASE rnode = "plan" ->
                      /\ rstate' = plan_node(rstate)
                      /\ rpc' = "save"
                      /\ UNCHANGED <<reports, runKeys, executions, backendCalls>>
                 [] rnode = "report" ->
                      /\ reports' = [reports EXCEPT ![rstate.session_id] = ReportOf(rstate)]
                      /\ rpc' = "save"
                      /\ UNCHANGED <<rstate, runKeys, executions, backendCalls>>
                 [] rnode = "execute" /\ NothingToExecute(rstate) ->
                      /\ rstate' = [rstate EXCEPT !.status = "completed"]
                      /\ rpc' = "save"
                      /\ UNCHANGED <<reports, runKeys, executions, backendCalls>>
                 [] rnode = "execute" /\ ~NothingToExecute(rstate) ->
                      \* execute_workflow_step: the run-key check, then
                      \* WorkflowEngine.submit with the run key as correlation id
                      IF RunKeyHit(CurrentKey(rstate))
                      THEN /\ rstate' = AfterStep(rstate, runKeys[CurrentKey(rstate)])
                           /\ rpc' = "save"
                           /\ UNCHANGED <<reports, runKeys, executions, backendCalls>>
                      ELSE IF CacheHit(CurrentKey(rstate))
                      THEN /\ rstate' = AfterStep(rstate, executions[CurrentKey(rstate)])
                           /\ runKeys' = StepPut(CurrentKey(rstate),
                                                 executions[CurrentKey(rstate)])
                           /\ rpc' = "save"
                           /\ UNCHANGED <<reports, executions, backendCalls>>
                      ELSE /\ backendCalls' =
                                  Update(backendCalls,
                                         [k \in {CurrentKey(rstate)} |->
                                             Calls(CurrentKey(rstate)) + 1])
                           /\ rpc' = "backend"
                           /\ UNCHANGED <<reports, runKeys, rstate, executions>>

\* the workflow execution ends: submit stores and returns the result, and
\* execute_node returns the new state
BackendDone ==
    /\ rpc = "backend"
    /\ LET result == ExecuteWorkflow(StepWorkflow(CurrentStep(rstate)),
                                     rstate.user_context)
       IN  /\ executions' = Update(executions, [k \in {CurrentKey(rstate)} |-> result])
           /\ rstate' = AfterStep(rstate, result)
           /\ runKeys' = StepPut(CurrentKey(rstate), result)
    /\ rpc' = "save"
    /\ UNCHANGED <<db, clock, reports, sessions, rcall, rnode, visited, rresult, reentry,
                   firstRun, runs, backendCalls, autoIds>>

\* ainvoke: "Save checkpoint", then "Determine next node"
Save ==
    /\ rpc = "save"
    /\ db' = Append(db, Row(rcall.session, rstate, CheckpointNode(rnode, rstate), rnode))
    /\ rnode' = NextNode(rnode, rstate)
    /\ rpc' = "loop"
    /\ UNCHANGED <<clock, reports, runKeys, sessions, rcall, rstate, visited, rresult,
                   reentry, firstRun, runs, engineVars>>

\* the caller takes the result
RunTake ==
    /\ rpc = "returned"
    /\ rpc' = "idle"
    /\ UNCHANGED <<storeVars, sessions, rcall, rstate, rnode, visited, rresult,
                   reentry, firstRun, runs, engineVars>>

\* cancel_graph: runs between two calls, or while the run awaits a step;
\* it returns whether the session is known
CancelCall(session_id) ==
    /\ rpc \in {"idle", "backend"}
    /\ session_id \in DOMAIN sessions
    /\ sessions' = [sessions EXCEPT ![session_id] = "cancelled"]
    /\ UNCHANGED <<storeVars, rpc, rcall, rstate, rnode, visited, rresult, reentry,
                   firstRun, runs, engineVars>>

\* A second passes.  Only put reads the clock and get looks only at the rows
\* of the newest second, so a second that ends within a run only takes rows
\* away from get's choice: the seconds that end between two runs give every
\* choice get can make, and they count only once there is a row.
Tick ==
    /\ rpc = "load"
    /\ db # <<>>
    /\ clock < MaxClock
    /\ clock' = clock + 1
    /\ UNCHANGED <<db, reports, runKeys, runVars, engineVars>>

\* The process dies and a new one starts: the table and the reports stay.
GraphCrash ==
    /\ crashes < MaxCrashes
    /\ crashes' = crashes + 1
    /\ sessions' = EmptyDict
    /\ executions' = EmptyDict
    /\ rpc' = "idle"
    /\ rcall' = NoRun
    /\ rstate' = NoState
    /\ rnode' = END
    /\ visited' = {}
    /\ rresult' = NoResult
    /\ reentry' = NoState
    /\ UNCHANGED <<storeVars, firstRun, runs, backendCalls, autoIds>>

GraphInit ==
    /\ db = <<>>
    /\ clock = 0
    /\ reports = [s \in Sessions |-> None]
    /\ runKeys = EmptyDict
    /\ sessions = EmptyDict
    /\ rpc = "idle"
    /\ rcall = NoRun
    /\ rstate = NoState
    /\ rnode = END
    /\ visited = {}
    /\ rresult = NoResult
    /\ reentry = NoState
    /\ firstRun = EmptyDict
    /\ runs = 0

\* ------------------------------------------------------------------------
\* GPU lock (ai/graph/gpu_lock.py)
\*
\* The callers are tasks of one event loop.  _FamilyLock._lock is held
\* only over code without a suspension, so it is always free when a task
\* asks for it: acquire and release run without interruption, and the only
\* suspension is `await fut` in acquire.  Time is counted in ticks of 25 ms.
\* ------------------------------------------------------------------------

Families == {"sd", "tts"}
GpuTasks == {"g1", "g2", "g3"}
GpuSessions == {"s1", "s2"}
\* the session each task runs for: g1 and g2 are two runs of one session
SessionOf == [t \in GpuTasks |-> IF t = "g3" THEN "s2" ELSE "s1"]

MaxAcquires == 3
MaxNow == 2

\* _FAIRNESS_WINDOW_SEC = 0.050, two ticks
FairnessWindow == 2

\* _holder_session is None
NoHolder == "None"

NoGpuCall == [family |-> "none", session |-> "none", ticket |-> 0]

\* an entry of _queue: (session_id, fut); the future is the one of the task
Waiter(session_id, t) == [session |-> session_id, task |-> t]

\* fut.done(): the future has a result or is cancelled
FutDone(t) == gpc[t] # "waiting"

\* a grant that does not look whether the lock has a holder
MaybeGrantOverHolder(queue, holder, at) ==
    IF queue = <<>>
    THEN [queue |-> queue, holder |-> holder, at |-> at, popped |-> NoTask]
    ELSE [queue |-> Tail(queue), holder |-> Head(queue).session, at |-> gnow,
          popped |-> Head(queue).task]

\* a grant that takes the last waiter of the queue instead of the first
MaybeGrantLast(queue, holder, at) ==
    IF holder # NoHolder \/ queue = <<>>
    THEN [queue |-> queue, holder |-> holder, at |-> at, popped |-> NoTask]
    ELSE [queue |-> SubSeq(queue, 1, Len(queue) - 1),
          holder |-> queue[Len(queue)].session, at |-> gnow,
          popped |-> queue[Len(queue)].task]

\* _maybe_grant on a lock with this queue, holder and acquisition time:
\* what it leaves, and the task whose entry it took from the queue
MaybeGrant(queue, holder, at) ==
    IF holder # NoHolder
    THEN \* "honour fairness window": both branches return
         IF gnow - at < FairnessWindow
         THEN [queue |-> queue, holder |-> holder, at |-> at, popped |-> NoTask]
         ELSE [queue |-> queue, holder |-> holder, at |-> at, popped |-> NoTask]
    ELSE IF queue = <<>>
    THEN [queue |-> queue, holder |-> holder, at |-> at, popped |-> NoTask]
    ELSE [queue |-> Tail(queue), holder |-> Head(queue).session, at |-> gnow,
          popped |-> Head(queue).task]

\* the lock of family f after _maybe_grant left g, and the histories
Granted(f, g) ==
    /\ gqueue' = [gqueue EXCEPT ![f] = g.queue]
    /\ gholder' = [gholder EXCEPT ![f] = g.holder]
    /\ gholderAt' = [gholderAt EXCEPT ![f] = g.at]
    /\ gserving' = IF g.popped = NoTask THEN gserving
                   ELSE [gserving EXCEPT ![f] = gcall[g.popped].ticket]

\* gpu_lock up to the body or to the wait: _FamilyLock.acquire
Acquire(t, f, session_id) ==
    /\ gpc[t] = "idle"
    /\ gtickets < MaxAcquires
    /\ gtickets' = gtickets + 1
    /\ LET g == MaybeGrant(Append(gqueue[f], Waiter(session_id, t)),
                           gholder[f], gholderAt[f])
       IN  /\ gqueue' = [gqueue EXCEPT ![f] = g.queue]
           /\ gholder' = [gholder EXCEPT ![f] = g.holder]
           /\ gholderAt' = [gholderAt EXCEPT ![f] = g.at]
           /\ gserving' = IF g.popped = NoTask THEN gserving
                          ELSE [gserving EXCEPT ![f] = gtickets + 1]
           \* `await fut` goes on at once when the future is done already
           /\ gpc' = [gpc EXCEPT ![t] = IF g.popped = t THEN "body" ELSE "waiting"]
    /\ gcall' = [gcall EXCEPT ![t] =
                    [family |-> f, session |-> session_id, ticket |-> gtickets + 1]]
    /\ UNCHANGED <<gnow, gcancelled>>

\* the task wakes from `await fut` and enters the body
Wake(t) ==
    /\ gpc[t] = "granted"
    /\ gpc' = [gpc EXCEPT ![t] = "body"]
    /\ UNCHANGED <<gqueue, gholder, gholderAt, gcall, gnow, gtickets, gserving,
                   gcancelled>>

\* a release that clears the holder and does not run the grant again
ReleaseWithoutGrant(t) ==
    /\ gpc[t] = "body"
    /\ gholder' = [gholder EXCEPT ![gcall[t].family] = NoHolder]
    /\ gholderAt' = [gholderAt EXCEPT ![gcall[t].family] = 0]
    /\ gpc' = [gpc EXCEPT ![t] = "idle"]
    /\ gcall' = [gcall EXCEPT ![t] = NoGpuCall]
    /\ UNCHANGED <<gqueue, gserving, gnow, gtickets, gcancelled>>

\* the body ends, by return, exception or cancellation: _FamilyLock.release
Release(t) ==
    /\ gpc[t] = "body"
    /\ LET f == gcall[t].family
       IN  IF gholder[f] # gcall[t].session
           THEN UNCHANGED <<gqueue, gholder, gholderAt, gserving>>
                /\ gpc' = [gpc EXCEPT ![t] = "idle"]
           ELSE LET g == MaybeGrant(gqueue[f], NoHolder, 0)
                IN  /\ Granted(f, g)
                    /\ gpc' = [u \in GpuTasks |->
                                  IF u = t THEN "idle"
                                  ELSE IF u = g.popped /\ ~FutDone(u) THEN "granted"
                                  ELSE gpc[u]]
    /\ gcall' = [gcall EXCEPT ![t] = NoGpuCall]
    /\ UNCHANGED <<gnow, gtickets, gcancelled>>

\* the task is cancelled in `await fut`: acquire raises CancelledError
\* outside the try of gpu_lock, its entry stays where it is
GpuCancel(t) ==
    /\ gpc[t] \in {"waiting", "granted"}
    /\ gpc' = [gpc EXCEPT ![t] = "cancelled"]
    /\ gcancelled' = [gcancelled EXCEPT ![gcall[t].family] = TRUE]
    /\ UNCHANGED <<gqueue, gholder, gholderAt, gcall, gnow, gtickets, gserving>>

\* time.time() moves on
GpuTick ==
    /\ gnow < MaxNow
    \* the clock is read only against the time a present holder acquired at
    /\ \E f \in Families : gholder[f] # NoHolder
    /\ gnow' = gnow + 1
    /\ UNCHANGED <<gqueue, gholder, gholderAt, gpc, gcall, gtickets, gserving,
                   gcancelled>>

GpuInit ==
    /\ gqueue = [f \in Families |-> <<>>]
    /\ gholder = [f \in Families |-> NoHolder]
    /\ gholderAt = [f \in Families |-> 0]
    /\ gpc = [t \in GpuTasks |-> "idle"]
    /\ gcall = [t \in GpuTasks |-> NoGpuCall]
    /\ gnow = 0
    /\ gtickets = 0
    /\ gserving = [f \in Families |-> 0]
    /\ gcancelled = [f \in Families |-> FALSE]


\* ------------------------------------------------------------------------
\* ModelRouter (ai/adapters/router.py)
\*
\* One caller at a time runs planner or exec. The configuration is the one
\* of the router tests: both roles have anthropic as primary and openai,
\* ollama as fallbacks. Which providers were initialised, which of them
\* raise, the policy and max_attempts are drawn when the router is built.
\* ------------------------------------------------------------------------

ProviderNames == {"anthropic", "openai", "ollama"}
Roles == {"planner", "exec", "specialized"}
Policies == {"complexity_based", "cost_optimized", "speed_optimized"}
AttemptChoices == {2, 3}
MaxInvokes == 2

\* `while fallback_level < 10`
MaxDepth == 10
\* routing.retry.backoff_factor and initial_delay, in seconds
BackoffFactor == 2
InitialDelay == 1

NoLastError == "None"
ApiError == "API Error"
NoResponse == [kind |-> "none"]
Text(content) == [kind |-> "text", content |-> content]
RuntimeError(role, error) == [kind |-> "RuntimeError", role |-> role, error |-> error]

ModelConfig(provider, model) == [provider |-> provider, model |-> model]

\* config["models"]
Models ==
    [planner |-> [primary |-> ModelConfig("anthropic", "claude-3-sonnet"),
                  fallback |-> <<ModelConfig("openai", "gpt-4"),
                                 ModelConfig("ollama", "mixtral")>>],
     exec |-> [primary |-> ModelConfig("anthropic", "claude-3-opus"),
               fallback |-> <<ModelConfig("openai", "gpt-4"),
                              ModelConfig("ollama", "codellama")>>]]

get_model_config(role, level) ==
    IF role \notin DOMAIN Models THEN None
    ELSE IF level = 0 THEN Models[role].primary
    ELSE IF level - 1 < Len(Models[role].fallback) THEN Models[role].fallback[level]
    ELSE None

RoutingResult(role, level) ==
    [provider |-> get_model_config(role, level).provider,
     config |-> get_model_config(role, level),
     role |-> role,
     fallback_level |-> level]

\* the level has a configuration and its provider was initialised
Usable(role, level) ==
    /\ get_model_config(role, level) # None
    /\ get_model_config(role, level).provider \in providers

RECURSIVE route_from(_, _)
route_from(role, level) ==
    IF get_model_config(role, level) = None THEN None
    ELSE IF Usable(role, level) THEN RoutingResult(role, level)
    ELSE route_from(role, level + 1)

route_default(role) == route_from(role, 0)

route_by_complexity(role, complexity) == route_default(role)

route_by_cost(role) ==
    LET levels == {l \in 0..5 : Usable(role, l)}
    IN  IF levels = {} THEN None
        ELSE RoutingResult(role, CHOOSE l \in levels : \A k \in levels : k <= l)

route_by_speed(role) ==
    LET levels == {l \in 0..9 : Usable(role, l)
                                /\ get_model_config(role, l).provider = "ollama"}
    IN  IF levels = {} THEN route_default(role)
        ELSE RoutingResult(role, CHOOSE l \in levels : \A k \in levels : l <= k)

route(role, complexity) ==
    IF current_policy = "complexity_based" /\ complexity # None
    THEN route_by_complexity(role, complexity)
    ELSE IF current_policy = "cost_optimized" THEN route_by_cost(role)
    ELSE IF current_policy = "speed_optimized" THEN route_by_speed(role)
    ELSE route_default(role)

RECURSIVE Pow(_, _)
Pow(b, e) == IF e = 0 THEN 1 ELSE b * Pow(b, e - 1)

\* delay = initial_delay * (backoff_factor ** attempt)
Delay(n) == InitialDelay * Pow(BackoffFactor, n)

routerRest == <<providers, current_policy, max_attempts, failing>>

\* set_policy
SetPolicy(policy) ==
    /\ mpc = "idle"
    /\ invokes < MaxInvokes
    /\ policy # current_policy
    /\ current_policy' = policy
    /\ UNCHANGED <<providers, max_attempts, failing, mpc, mrole, fallback_level, attempt,
                   last_error, routing_result, mresult, mnow, invokes, achatCalls,
                   failedAt>>

\* planner / exec up to the head of the while loop of _execute_with_fallback
Invoke(role) ==
    /\ mpc = "idle"
    /\ invokes < MaxInvokes
    /\ invokes' = invokes + 1
    /\ mrole' = role
    /\ fallback_level' = 0
    /\ last_error' = NoLastError
    /\ attempt' = 0
    /\ routing_result' = None
    /\ mresult' = NoResponse
    /\ achatCalls' = [p \in ProviderNames |-> 0]
    /\ mpc' = "loop"
    /\ UNCHANGED <<routerRest, mnow, failedAt>>

\* the head of the while loop: the depth test and the routing of the round
Round ==
    /\ mpc = "loop"
    /\ IF fallback_level < MaxDepth /\ route(mrole, None) # None
       THEN /\ routing_result' = route(mrole, None)
            /\ attempt' = 0
            /\ mpc' = "attempt"
       ELSE /\ mpc' = "raise"
            /\ UNCHANGED <<routing_result, attempt>>
    /\ UNCHANGED <<routerRest, mrole, fallback_level, last_error, mresult, mnow, invokes,
                   achatCalls, failedAt>>

\* one pass of the for loop: provider.achat, then the return or the handler
\* with its sleep; after the last attempt the next round
Achat ==
    /\ mpc = "attempt"
    /\ LET p == routing_result.provider
       IN  /\ achatCalls' = [achatCalls EXCEPT ![p] = @ + 1]
           /\ IF p \notin failing
              THEN /\ mresult' = Text(p)
                   /\ mpc' = "idle"
                   /\ failedAt' = [failedAt EXCEPT ![p] = <<>>]
                   /\ UNCHANGED <<last_error, attempt, fallback_level, mnow>>
              ELSE /\ last_error' = ApiError
                   /\ failedAt' = [failedAt EXCEPT ![p] = Append(@, mnow)]
                   /\ IF attempt < max_attempts - 1
                      THEN /\ mnow' = mnow + Delay(attempt)
                           /\ attempt' = attempt + 1
                           /\ UNCHANGED <<fallback_level, mpc>>
                      ELSE /\ fallback_level' = fallback_level + 1
                           /\ mpc' = "loop"
                           /\ UNCHANGED <<mnow, attempt>>
                   /\ UNCHANGED mresult
    /\ UNCHANGED <<routerRest, mrole, routing_result, invokes>>

\* after the loop: raise RuntimeError(error_msg)
RaiseAllFailed ==
    /\ mpc = "raise"
    /\ mresult' = RuntimeError(mrole, last_error)
    /\ mpc' = "idle"
    /\ UNCHANGED <<routerRest, mrole, fallback_level, attempt, last_error, routing_result,
                   mnow, invokes, achatCalls, failedAt>>

RouterCallQuiet ==
    /\ mpc = "idle"
    /\ mrole = "planner"
    /\ fallback_level = 0
    /\ attempt = 0
    /\ last_error = NoLastError
    /\ routing_result = None
    /\ mresult = NoResponse
    /\ mnow = 0
    /\ invokes = 0
    /\ achatCalls = [p \in ProviderNames |-> 0]
    /\ failedAt = [p \in ProviderNames |-> <<>>]

\* ModelRouter.__init__ with the configuration file and the providers given
RouterInit ==
    /\ providers \in SUBSET ProviderNames
    /\ current_policy = "complexity_based"
    /\ max_attempts \in AttemptChoices
    /\ failing \in SUBSET ProviderNames
    /\ RouterCallQuiet

\* the router while another component is looked at
RouterQuiet ==
    /\ providers = ProviderNames
    /\ current_policy = "complexity_based"
    /\ max_attempts = 3
    /\ failing = {}
    /\ RouterCallQuiet

\* ------------------------------------------------------------------------
\* GraphEngineBridge.tool_call_to_steps (ai/graph/bridge.py)
\* ------------------------------------------------------------------------

Bridges == {"b1", "b2"}

MaxConverts == 3

\* StepSpec; depends_on = <<>> stands for None (to_dict treats both alike)
StepSpec(name, type, params, depends_on) ==
    [name |-> name, type |-> type, params |-> params, depends_on |-> depends_on]

\* ToolCall; arguments holds the keys the caller gave
ToolCall(name, arguments) == [name |-> name, arguments |-> arguments]

NoToolCall == ToolCall("", EmptyDict)

\* the tool calls looked at: every known tool with the arguments its
\* converter branches on given and not given, and a tool with no converter
ToolCallInputs ==
    {ToolCall("sd_generate", a) :
        a \in {[prompt |-> "cat"],
               [prompt |-> "cat", save_artifact |-> TRUE],
               [prompt |-> "dog", save_artifact |-> FALSE]}}
    \cup {ToolCall("upscale_image", a) :
        a \in {[input |-> "a.png"], [image_path |-> "a.png"]}}
    \cup {ToolCall("generate_animation", a) :
        a \in {[prompt |-> "cat"], [prompt |-> "dog"]}}
    \cup {ToolCall("transcribe_audio", a) :
        a \in {[audio_path |-> "a.wav"],
               [audio_path |-> "a.wav", format |-> "segments"],
               [audio_path |-> "a.wav", format |-> "text"]}}
    \cup {ToolCall("synthesize_speech", a) :
        a \in {[text |-> "hi"], [text |-> "ho"]}}
    \cup {ToolCall("upload_file", a) :
        a \in {[file_path |-> "a.png"],
               [file_path |-> "a.png", destination |-> "telegram"],
               [file_path |-> "a.png", destination |-> "local"]}}
    \cup {ToolCall("unknown_tool", [param |-> "value"])}

\* the keys of _initialize_mappings
KnownTools ==
    {"sd_generate", "upscale_image", "generate_animation",
     "transcribe_audio", "synthesize_speech", "upload_file"}

_default_to_steps(tool_call) ==
    <<StepSpec("unknown_tool_step", tool_call.name, tool_call.arguments, <<>>)>>

_sd_generate_to_steps(tool_call) ==
    LET args == tool_call.arguments IN
    <<StepSpec("generate_image", "txt2img",
               [prompt |-> Get(args, "prompt", "")], <<>>)>>
    \o (IF Get(args, "save_artifact", TRUE)
        THEN <<StepSpec("save_artifact", "save_artifact",
                        [input |-> "${generate_image.image_path}"],
                        <<"generate_image">>)>>
        ELSE <<>>)

_upscale_to_steps(tool_call) ==
    LET args == tool_call.arguments
        given == "image_path" \in DOMAIN args
    IN  (IF given
         THEN <<StepSpec("load_image", "load_image",
                         [path |-> args["image_path"]], <<>>)>>
         ELSE <<>>)
        \o <<StepSpec("upscale_image", "upscale",
                      [input |-> IF given THEN "${load_image.image}"
                                 ELSE Get(args, "input", "")],
                      IF given THEN <<"load_image">> ELSE <<>>),
             StepSpec("save_upscaled", "save_artifact",
                      [input |-> "${upscale_image.image_path}"],
                      <<"upscale_image">>)>>

_animation_to_steps(tool_call) ==
    LET args == tool_call.arguments IN
    <<StepSpec("generate_keyframes", "generate_keyframes",
               [prompt |-> Get(args, "prompt", "")], <<>>),
      StepSpec("interpolate_frames", "interpolate",
               [keyframes |-> "${generate_keyframes.frames}"],
               <<"generate_keyframes">>),
      StepSpec("render_animation", "render_video",
               [frames |-> "${interpolate_frames.frames}"],
               <<"interpolate_frames">>)>>

_asr_to_steps(tool_call) ==
    LET args == tool_call.arguments IN
    <<StepSpec("load_audio", "load_audio",
               [path |-> Get(args, "audio_path", "")], <<>>),
      StepSpec("transcribe_audio", "asr",
               [audio |-> "${load_audio.audio}"], <<"load_audio">>)>>
    \o (IF Get(args, "format", "") = "segments"
        THEN <<StepSpec("format_segments", "format_output",
                        [segments |-> "${transcribe_audio.segments}"],
                        <<"transcribe_audio">>)>>
        ELSE <<>>)

_tts_to_steps(tool_call) ==
    LET args == tool_call.arguments IN
    <<StepSpec("prepare_text", "text_preprocessing",
               [text |-> Get(args, "text", "")], <<>>),
      StepSpec("synthesize_speech", "tts",
               [text |-> "${prepare_text.processed_text}"],
               <<"prepare_text">>),
      StepSpec("save_audio", "save_artifact",
               [input |-> "${synthesize_speech.audio_path}"],
               <<"synthesize_speech">>)>>

_upload_to_steps(tool_call) ==
    LET args == tool_call.arguments IN
    IF Get(args, "destination", "local") = "telegram"
    THEN <<StepSpec("upload_telegram", "telegram_upload",
                    [file_path |-> Get(args, "file_path", "")], <<>>)>>
    ELSE <<StepSpec("upload_local", "local_upload",
                    [file_path |-> Get(args, "file_path", "")], <<>>)>>

\* the step names in the order Python compares strings
StepNameOrder ==
    <<"format_segments", "generate_image", "generate_keyframes",
      "interpolate_frames", "load_audio", "load_image", "prepare_text",
      "render_animation", "save_artifact", "save_audio", "save_upscaled",
      "synthesize_speech", "transcribe_audio", "upload_local",
      "upload_telegram", "upscale_image">>

NameRank(name) ==
    CHOOSE i \in DOMAIN StepNameOrder : StepNameOrder[i] = name

\* list.sort(key=lambda s: s.name): stable, ascending by name
RECURSIVE SortByName(_)
SortByName(steps) ==
    IF steps = <<>> THEN <<>>
    ELSE LET first == CHOOSE i \in DOMAIN steps :
                 \A j \in DOMAIN steps :
                     \/ NameRank(steps[i].name) < NameRank(steps[j].name)
                     \/ (NameRank(steps[i].name) = NameRank(steps[j].name) /\ i <= j)
         IN  <<steps[first]>>
             \o SortByName([k \in 1..(Len(steps) - 1) |->
                               IF k < first THEN steps[k] ELSE steps[k + 1]])

\* the list read from its end
Reversed(steps) == [k \in 1..Len(steps) |-> steps[Len(steps) + 1 - k]]

\* a conversion whose step order depends on the bridge asked
tool_call_to_steps_per_bridge(self, tool_call) ==
    LET converted ==
            CASE tool_call.name = "sd_generate" -> _sd_generate_to_steps(tool_call)
              [] tool_call.name = "upscale_image" -> _upscale_to_steps(tool_call)
              [] tool_call.name = "generate_animation" -> _animation_to_steps(tool_call)
              [] tool_call.name = "transcribe_audio" -> _asr_to_steps(tool_call)
              [] tool_call.name = "synthesize_speech" -> _tts_to_steps(tool_call)
              [] OTHER -> _upload_to_steps(tool_call)
    IN  IF tool_call.name \notin KnownTools
        THEN _default_to_steps(tool_call)
        ELSE IF self = "b1" THEN SortByName(converted)
             ELSE Reversed(SortByName(converted))

tool_call_to_steps(self, tool_call) ==
    LET converted ==
            CASE tool_call.name = "sd_generate" -> _sd_generate_to_steps(tool_call)
              [] tool_call.name = "upscale_image" -> _upscale_to_steps(tool_call)
              [] tool_call.name = "generate_animation" -> _animation_to_steps(tool_call)
              [] tool_call.name = "transcribe_audio" -> _asr_to_steps(tool_call)
              [] tool_call.name = "synthesize_speech" -> _tts_to_steps(tool_call)
              [] OTHER -> _upload_to_steps(tool_call)
    IN  IF tool_call.name \notin KnownTools
        THEN _default_to_steps(tool_call)
        ELSE SortByName(converted)

\* a caller converts a tool call on one of the bridges
Convert(b, tool_call) ==
    /\ converts < MaxConverts
    /\ converts' = converts + 1
    /\ bcall' = [bcall EXCEPT ![b] = tool_call]
    /\ bsteps' = [bsteps EXCEPT ![b] = tool_call_to_steps(b, tool_call)]
    /\ UNCHANGED <<waits, bengine, bresult>>

MaxWaits == 3

\* ToolResult / ArtifactResult
ToolResult(success, data, error, artifact_path) ==
    [success |-> success, data |-> data, error |-> error,
     artifact_path |-> artifact_path]

NoToolResult == ToolResult(FALSE, None, "none", None)

\* submit_and_wait, lines 404-447: the engine's result becomes a ToolResult;
\* for a YAML text the else branch raises in workflow_dict.get
EngineResultToToolResult(workflow_dict, result) ==
    IF workflow_dict = BadYaml
    THEN ToolResult(FALSE, None, "exception", None)
    ELSE IF result.status = "completed"
    THEN LET withImage == {i \in DOMAIN workflow_dict.steps :
                 "image_path" \in DOMAIN result.outputs[workflow_dict.steps[i].name]}
         IN  IF withImage # {}
             THEN ToolResult(TRUE, result.outputs, "none",
                      result.outputs[workflow_dict.steps[
                          CHOOSE i \in withImage : \A j \in withImage : i <= j].name].image_path)
             ELSE ToolResult(TRUE, result.outputs, "none", None)
    ELSE ToolResult(FALSE, None, Get(result, "error", "Workflow execution failed"), None)

\* hashlib.md5(json.dumps(workflow_dict, sort_keys=True)): one id per spec
SpecId(workflow_dict) == [md5 |-> workflow_dict]

\* GraphEngineBridge.submit_and_wait(spec, correlation_id) with a dict spec,
\* WorkflowEngine.submit included; no timeout
SubmitAndWait(spec, correlation_id) ==
    LET cid == IF correlation_id = NoCid THEN SpecId(spec) ELSE correlation_id
        result == IF spec = BadYaml THEN [status |-> "error", error |-> "yaml"]
                  ELSE IF CacheHit(cid) THEN executions[cid]
                  ELSE ExecuteWorkflow(spec, EmptyDict)
    IN  /\ waits < MaxWaits
        /\ waits' = waits + 1
        /\ IF spec = BadYaml \/ CacheHit(cid)
           THEN UNCHANGED <<executions, backendCalls>>
           ELSE /\ executions' = Update(executions, [k \in {cid} |-> result])
                /\ backendCalls' = Update(backendCalls, [k \in {cid} |-> Calls(cid) + 1])
        /\ bengine' = result
        /\ bresult' = EngineResultToToolResult(spec, result)
        /\ UNCHANGED <<autoIds, bcall, bsteps, converts>>

\* GraphEngineBridge.__init__: nothing converted or submitted yet
BridgeInit ==
    /\ bcall = [b \in Bridges |-> NoToolCall]
    /\ bsteps = [b \in Bridges |-> <<>>]
    /\ converts = 0
    /\ waits = 0
    /\ bengine = None
    /\ bresult = NoToolResult

bridgeVars == <<bcall, bsteps, converts, waits, bengine, bresult>>

\* ------------------------------------------------------------------------
\* The node classes (ai/graph/nodes) on a GraphState (ai/graph/state.py)
\* ------------------------------------------------------------------------

MaxTicks == 5

\* a goal is the command it begins with and the text after it; None is a
\* goal that was assigned without validation and is no string
NodeGoals ==
    {[cmd |-> "/img", arg |-> "a cat"],
     [cmd |-> "/tts", arg |-> "hello"],
     [cmd |-> "/upload", arg |-> "my clip"],
     [cmd |-> "/create", arg |-> "a cat"],
     [cmd |-> "", arg |-> "a poem"],
     None}

UserRoles == {"user", "guest"}

\* GraphState.retry_budget: the default and two small budgets
RetryBudgets == {1, 2, 10}

\* PlanItem; the n-th item created has the id pn (a fresh uuid4 in the code)
PlanItemIds == {"p1", "p2", "p3", "p4"}

NoStep == "none"

PlanItem(id, action, dependencies, max_retries) ==
    [id |-> id, action |-> action, dependencies |-> dependencies,
     status |-> "pending", retry_count |-> 0, max_retries |-> max_retries]

ErrorInfo(step_id, severity) == [step_id |-> step_id, severity |-> severity]

\* GraphState(user=..., goal=..., retry_budget=...)
GraphState(goal, role, retry_budget) ==
    [goal |-> goal, role |-> role, plan |-> <<>>, current_step |-> 0,
     errors |-> <<>>, is_completed |-> FALSE, is_failed |-> FALSE,
     retry_budget |-> retry_budget, used_retries |-> 0]

get_current_plan_item(state) ==
    IF 0 <= state.current_step /\ state.current_step < Len(state.plan)
    THEN state.current_step + 1
    ELSE 0

get_failed_steps(state) ==
    {i \in DOMAIN state.plan : state.plan[i].status = "failed"}

has_critical_errors(state) ==
    \E e \in DOMAIN state.errors : state.errors[e].severity = "critical"

add_error(state, severity, step_id) ==
    [state EXCEPT !.errors = Append(@, ErrorInfo(step_id, severity))]

advance_step(state) == [state EXCEPT !.current_step = @ + 1]

\* a can_retry that never sees the budget used up
can_retry_always(state) == ~has_critical_errors(state)

can_retry(state) ==
    state.used_retries < state.retry_budget /\ ~has_critical_errors(state)

\* ---- PlannerNode ----

\* action_configs[action]['max_retries'], 2 without an entry
ActionMaxRetries(action) ==
    CASE action \in {"txt2img", "img2img", "asr", "tts"} -> 2
      [] action \in {"upscale", "anim"} -> 1
      [] action \in {"upload_youtube", "upload_tiktok"} -> 3
      [] OTHER -> 2

_create_plan_item(id, action, dependencies) ==
    PlanItem(id, action, dependencies, ActionMaxRetries(action))

_plan_image_generation(user_role) ==
    <<_create_plan_item("p1", "txt2img", <<>>)>>
    \o (IF user_role \in {"user", "admin"}
        THEN <<_create_plan_item("p2", "upscale", <<"p1">>)>>
        ELSE <<>>)

_plan_text_to_speech(user_role) == <<_create_plan_item("p1", "tts", <<>>)>>

\* the description names neither youtube nor tiktok: both platforms
_plan_upload(user_role) ==
    <<_create_plan_item("p1", "upload_youtube", <<>>),
      _create_plan_item("p2", "upload_tiktok", <<>>)>>

_plan_creative_workflow(user_role) ==
    <<_create_plan_item("p1", "txt2img", <<>>),
      _create_plan_item("p2", "upscale", <<"p1">>),
      _create_plan_item("p3", "anim", <<"p2">>)>>
    \o (IF user_role \in {"user", "admin"}
        THEN <<_create_plan_item("p4", "upload_youtube", <<"p3">>)>>
        ELSE <<>>)

\* no keyword of the fallback occurs in the goals looked at: image generation
_plan_intelligent_fallback(user_role) == _plan_image_generation(user_role)

\* re.match(pattern, goal.strip(), ...) by the command the goal begins with
_create_plan(goal, user_role) ==
    CASE goal.cmd = "/img" -> _plan_image_generation(user_role)
      [] goal.cmd = "/tts" -> _plan_text_to_speech(user_role)
      [] goal.cmd = "/upload" -> _plan_upload(user_role)
      [] goal.cmd = "/create" -> _plan_creative_workflow(user_role)
      [] OTHER -> _plan_intelligent_fallback(user_role)

\* goal.strip() raises for a goal that is no string
PlanningRaises(goal) == goal = None

Range(s) == {s[i] : i \in DOMAIN s}

RECURSIVE ResolveFrom(_, _)
ResolveFrom(resolved, remaining) ==
    IF remaining = <<>> THEN resolved
    ELSE LET done == {resolved[i].id : i \in DOMAIN resolved}
             IsReady(item) == Range(item.dependencies) \subseteq done
             found == SelectSeq(remaining, IsReady)
             ready_items == IF found = <<>> THEN remaining ELSE found
             NotTaken(item) == item \notin Range(ready_items)
         IN  ResolveFrom(resolved \o ready_items, SelectSeq(remaining, NotTaken))

_resolve_dependencies(plan_items) == ResolveFrom(<<>>, plan_items)

\* PlannerNode.__call__: the state it leaves and the dict it returns
PlannerNode(state) ==
    IF PlanningRaises(state.goal)
    THEN [state |-> add_error(state, "error", NoStep), plan |-> <<>>]
    ELSE LET plan_items == _create_plan(state.goal, state.role)
         IN  IF plan_items = <<>>
             THEN [state |-> add_error(state, "error", NoStep), plan |-> <<>>]
             ELSE [state |-> state, plan |-> _resolve_dependencies(plan_items)]

\* ---- DeciderNode ----

\* the values of max_steps looked at: the default, and a configured one
\* below the length of the longest plan
MaxStepsValues == {2, 20}

max_parallel_gpu_tasks == 1

_requires_gpu(step) ==
    step.action \in {"txt2img", "img2img", "upscale", "anim", "avatar", "style_transfer"}

\* lower value = higher priority; no code calls it
_get_step_priority(step) ==
    LET base_priority ==
            CASE step.action \in {"txt2img", "img2img", "asr", "tts"} -> 1
              [] step.action = "upscale" -> 2
              [] step.action = "anim" -> 3
              [] step.action \in {"upload_youtube", "upload_tiktok", "upload_instagram"} -> 4
              [] OTHER -> 5
        retry_penalty == step.retry_count * 2
    IN  base_priority + retry_penalty

_check_completion(state) ==
    CASE state.is_completed -> "Workflow marked as completed"
      [] state.plan # <<>>
           /\ \A i \in DOMAIN state.plan : state.plan[i].status = "completed"
           -> "All plan items completed"
      [] state.plan = <<>> -> "No plan items to execute"
      [] state.current_step >= max_steps -> "Maximum steps reached"
      [] OTHER -> ""

_check_error_conditions(state) ==
    CASE state.is_failed -> "Workflow marked as failed"
      [] has_critical_errors(state) -> "Critical errors present"
      [] ~can_retry(state) -> "Retry budget exhausted"
      [] 2 * Cardinality(get_failed_steps(state)) > Len(state.plan)
           -> "Too many failed steps"
      [] OTHER -> ""

\* a test that takes every dependency for completed
_dependencies_always_satisfied(item, state) == TRUE

_dependencies_satisfied(item, state) ==
    LET completed_step_ids ==
            {state.plan[i].id : i \in {j \in DOMAIN state.plan :
                                          state.plan[j].status = "completed"}}
    IN  Range(item.dependencies) \subseteq completed_step_ids

FirstOf(indexes) ==
    IF indexes = {} THEN 0
    ELSE CHOOSE i \in indexes : \A j \in indexes : i <= j

\* the index of the item selected, 0 for None
_select_next_step(state) ==
    LET retry == {i \in DOMAIN state.plan :
                     /\ state.plan[i].status = "failed"
                     /\ state.plan[i].retry_count < state.plan[i].max_retries}
        ready == {i \in DOMAIN state.plan :
                     /\ state.plan[i].status = "pending"
                     /\ _dependencies_satisfied(state.plan[i], state)}
    IN  IF retry # {} THEN FirstOf(retry) ELSE FirstOf(ready)

_check_resources(step, state) ==
    LET running_gpu_tasks ==
            Cardinality({i \in DOMAIN state.plan :
                            /\ state.plan[i].status = "running"
                            /\ _requires_gpu(state.plan[i])})
    IN  ~(_requires_gpu(step) /\ running_gpu_tasks >= max_parallel_gpu_tasks)

Decision(next_step, continue, reason) ==
    [next_step |-> next_step, should_continue |-> continue, reason |-> reason]

NoDecision == Decision(NoStep, FALSE, "")

\* DeciderNode.__call__: the dict it returns; the state is left alone
DeciderNode(state) ==
    LET completed == _check_completion(state)
        stop == _check_error_conditions(state)
        next == _select_next_step(state)
    IN  CASE completed # "" -> Decision(NoStep, FALSE, completed)
          [] stop # "" -> Decision(NoStep, FALSE, stop)
          [] next = 0 -> Decision(NoStep, FALSE, "No executable steps remaining")
          [] ~_check_resources(state.plan[next], state)
               -> Decision(NoStep, TRUE, "Resources not available")
          [] OTHER -> Decision(state.plan[next].id, TRUE, "Executing")

\* ---- ExecutorNode ----

\* what the call of the service comes to: it returns its artifact paths;
\* it returns success False or raises inside the service function; its
\* arguments are rejected before the backend is called; it returns
\* something that is no path, which the executor then fails to wrap
Outcomes == {"success", "failure", "invalid", "exception"}

\* lines 55-59: the item at current_step is marked RUNNING
MarkRunning(state) ==
    [state EXCEPT !.plan[get_current_plan_item(state)].status = "running"]

\* lines 70-144: the result is processed
ProcessResult(state, outcome) ==
    LET at == get_current_plan_item(state)
        id == state.plan[at].id
        failed == [state EXCEPT !.plan[at].status = "failed",
                                !.plan[at].retry_count = @ + 1,
                                !.used_retries = @ + 1]
    IN  CASE outcome = "success" -> [state EXCEPT !.plan[at].status = "completed"]
          [] outcome \in {"failure", "invalid"} -> add_error(failed, "error", id)
          [] OTHER -> add_error(failed, "critical", id)

\* ---- the runtime of the nodes: the edge table ----

\* the decider will not select the item for a retry
NotRetried(item) ==
    item.status = "completed"
        \/ (item.status = "failed" /\ item.retry_count >= item.max_retries)

PlannerTick ==
    /\ npc = "planner"
    /\ LET r == PlannerNode(nstate)
       IN  nstate' = [r.state EXCEPT !.plan = r.plan]
    /\ npc' = "decider"
    /\ UNCHANGED <<ndecision, nbad, nticks, ninvoked, nrejected, max_steps>>

DeciderTick ==
    /\ npc = "decider"
    /\ LET d == DeciderNode(nstate)
       IN  /\ ndecision' = d
           /\ npc' = IF d.next_step # NoStep THEN "executor"
                     ELSE IF d.should_continue THEN "decider" ELSE "reporter"
    /\ UNCHANGED <<nstate, nbad, nticks, ninvoked, nrejected, max_steps>>

\* ExecutorNode.__call__ up to the call of the service
ExecutorBegin ==
    /\ npc = "executor"
    /\ nticks < MaxTicks
    /\ nticks' = nticks + 1
    /\ IF get_current_plan_item(nstate) = 0
       THEN /\ npc' = "decider"
            /\ UNCHANGED nstate
       ELSE /\ npc' = "service"
            /\ nstate' = MarkRunning(nstate)
    /\ UNCHANGED <<ndecision, nbad, ninvoked, nrejected, max_steps>>

\* the service call is over and ExecutorNode.__call__ returns; the runtime
\* may step to the next item when this one will not be retried
ExecutorFinish(outcome, advance) ==
    /\ npc = "service"
    /\ LET id == nstate.plan[get_current_plan_item(nstate)].id
           after == ProcessResult(nstate, outcome)
       IN  /\ (outcome = "invalid") <=> (id \in nbad)
           /\ advance => NotRetried(after.plan[get_current_plan_item(nstate)])
           /\ nstate' = IF advance THEN advance_step(after) ELSE after
           /\ ninvoked' = IF outcome = "invalid" THEN ninvoked ELSE ninvoked \cup {id}
           /\ nrejected' = IF outcome = "invalid" THEN nrejected \cup {id} ELSE nrejected
    /\ npc' = "decider"
    /\ UNCHANGED <<ndecision, nbad, nticks, max_steps>>

\* ---- ReporterNode ----

\* the status line of _create_status_message; failed_steps are the FAILED
\* items of the plan (_prepare_report)
_create_status_message(state) ==
    LET failed_steps == {i \in DOMAIN state.plan : state.plan[i].status = "failed"}
    IN  IF state.is_completed /\ failed_steps = {} THEN "Status: Erfolgreich"
        ELSE IF failed_steps # {} THEN "Status: Teilweise erfolgreich"
        ELSE "Status: Fehlgeschlagen"

\* ReporterNode.__call__ leaves the state alone
ReporterTick ==
    /\ npc = "reporter"
    /\ npc' = "end"
    /\ UNCHANGED <<nstate, ndecision, nbad, nticks, ninvoked, nrejected, max_steps>>

NodesStart(goal, role, retry_budget, bad, steps) ==
    /\ nstate = GraphState(goal, role, retry_budget)
    /\ max_steps = steps
    /\ npc = "planner"
    /\ ndecision = NoDecision
    /\ nbad = bad
    /\ nticks = 0
    /\ ninvoked = {}
    /\ nrejected = {}

\* a session with its state constructed, before the planner runs
NodesInit ==
    \E goal \in NodeGoals, role \in UserRoles, retry_budget \in RetryBudgets,
       bad \in {{}, {"p1"}}, steps \in MaxStepsValues :
        NodesStart(goal, role, retry_budget, bad, steps)

\* the nodes while another component is looked at
NodesQuiet == NodesStart(None, "user", 10, {}, 20)

nodeVars == <<nstate, npc, ndecision, nbad, nticks, ninvoked, nrejected, max_steps>>

\* ------------------------------------------------------------------------
\* SchemaRegistry (ai/adapters/registry.py)
\* ------------------------------------------------------------------------

SchemaNames == {"versioned_tool", "other_tool"}
SchemaVersions == {"1.0.0", "2.0.0"}
ModelClasses == {"TestToolInput", "ComplexToolInput"}

MaxRegisters == 3

NoVersion == "None"
NoFunctionDef == [name |-> "None", parameters |-> "None"]

\* _pydantic_to_function_def: the function schema of the model class
_pydantic_to_function_def(model_class, name) ==
    [name |-> name, parameters |-> model_class]

RegisteredSchema(name, function_def, versions, current_version) ==
    [name |-> name, function_def |-> function_def, versions |-> versions,
     current_version |-> current_version]

\* a register that starts the history of the name afresh
register_replacing(name, model_class, version) ==
    LET function_def == _pydantic_to_function_def(model_class, name)
    IN  /\ _schemas' = Update(_schemas, [n \in {name} |->
               RegisteredSchema(name, function_def, <<version>>, version)])
        /\ _version_history' = Update(_version_history, [n \in {name} |->
               <<<<version, function_def>>>>])

\* SchemaRegistry.register(model_class, name=name, version=version)
register(name, model_class, version) ==
    LET function_def == _pydantic_to_function_def(model_class, name)
    IN  IF name \in DOMAIN _schemas
        THEN /\ _schemas' = [_schemas EXCEPT
                   ![name].versions = Append(@, version),
                   ![name].current_version = version,
                   ![name].function_def = function_def]
             /\ _version_history' =
                   IF name \notin DOMAIN _version_history
                   THEN Update(_version_history, [n \in {name} |->
                            <<<<version, function_def>>>>])
                   ELSE [_version_history EXCEPT
                            ![name] = Append(@, <<version, function_def>>)]
        ELSE /\ _schemas' = Update(_schemas, [n \in {name} |->
                   RegisteredSchema(name, function_def, <<version>>, version)])
             /\ _version_history' = Update(_version_history, [n \in {name} |->
                   <<<<version, function_def>>>>])

\* SchemaRegistry.get(name, version), on the given registry contents
get_in(schemas, version_history, name, version) ==
    IF name \notin DOMAIN schemas THEN NoFunctionDef
    ELSE IF version = NoVersion THEN schemas[name].function_def
    ELSE IF name \in DOMAIN version_history
              /\ \E i \in DOMAIN version_history[name] :
                     version_history[name][i][1] = version
         THEN LET first == CHOOSE i \in DOMAIN version_history[name] :
                      /\ version_history[name][i][1] = version
                      /\ \A j \in 1..(i - 1) : version_history[name][j][1] # version
              IN  version_history[name][first][2]
         ELSE NoFunctionDef

get(name, version) == get_in(_schemas, _version_history, name, version)

\* a caller registers a model class under a name and a version
Register(name, model_class, version) ==
    /\ registers < MaxRegisters
    /\ registers' = registers + 1
    /\ register(name, model_class, version)
    /\ last_register' = [name |-> name, version |-> version,
                         function_def |-> _pydantic_to_function_def(model_class, name)]
    /\ UNCHANGED got

\* a caller asks for a definition
SchemaGet(name, version) ==
    /\ registers > 0
    /\ got' = [name |-> name, version |-> version, function_def |-> get(name, version)]
    /\ UNCHANGED <<_schemas, _version_history, registers, last_register>>

NoRegistryCall == [name |-> "None", version |-> NoVersion, function_def |-> NoFunctionDef]

\* SchemaRegistry.__init__
RegistryInit ==
    /\ _schemas = EmptyDict
    /\ _version_history = EmptyDict
    /\ registers = 0
    /\ last_register = NoRegistryCall
    /\ got = NoRegistryCall

registryVars == <<_schemas, _version_history, registers, last_register, got>>

\* ------------------------------------------------------------------------
\* Specifications
\* ------------------------------------------------------------------------

vars == <<engineVars, taskVars, ckptVars, graphVars, gpuVars, routerVars, bridgeVars, nodeVars, registryVars, crashes>>

InitEngine ==
    EngineInit /\ TasksInit /\ CkptQuiet /\ GraphInit /\ GpuInit /\ RouterQuiet /\ BridgeInit /\ NodesQuiet /\ RegistryInit /\ crashes = 0

NextEngine ==
    \/ \E t \in Tasks, w \in Workflows, c \in CorrIds \cup {NoCid}, x \in Contexts :
           SubmitBegin(t, w, c, x) /\ UNCHANGED <<ckptVars, graphVars, gpuVars, routerVars, bridgeVars, nodeVars, registryVars, crashes>>
    \/ \E t \in Tasks : SubmitFinish(t) /\ UNCHANGED <<ckptVars, graphVars, gpuVars, routerVars, bridgeVars, nodeVars, registryVars, crashes>>
    \/ \E t \in Tasks : TakeResult(t) /\ UNCHANGED <<ckptVars, graphVars, gpuVars, routerVars, bridgeVars, nodeVars, registryVars, crashes>>

SpecEngine == InitEngine /\ [][NextEngine]_vars

InitCkpt ==
    CkptInit /\ EngineInit /\ TasksInit /\ GraphInit /\ GpuInit /\ RouterQuiet /\ BridgeInit /\ NodesQuiet /\ RegistryInit /\ crashes = 0

NextCkpt ==
    \/ \E t \in Tasks, o \in Ckpts :
           AgetCall(t, o) /\ UNCHANGED <<engineVars, taskVars, graphVars, gpuVars, routerVars, bridgeVars, nodeVars, registryVars, crashes>>
    \/ \E t \in Tasks, o \in Ckpts, x \in NewStates :
           AputCall(t, o, x) /\ UNCHANGED <<engineVars, taskVars, graphVars, gpuVars, routerVars, bridgeVars, nodeVars, registryVars, crashes>>
    \/ \E t \in Tasks : Resume(t) /\ UNCHANGED <<engineVars, taskVars, graphVars, gpuVars, routerVars, bridgeVars, nodeVars, registryVars, crashes>>
    \/ \E t \in Tasks : Cancel(t) /\ UNCHANGED <<engineVars, taskVars, graphVars, gpuVars, routerVars, bridgeVars, nodeVars, registryVars, crashes>>
    \/ \E t \in Tasks : CkptTake(t) /\ UNCHANGED <<engineVars, taskVars, graphVars, gpuVars, routerVars, bridgeVars, nodeVars, registryVars, crashes>>
    \/ CkptCrash /\ UNCHANGED <<engineVars, taskVars, graphVars, gpuVars, routerVars, bridgeVars, nodeVars, registryVars>>

SpecCkpt == InitCkpt /\ [][NextCkpt]_vars

InitGraph ==
    GraphInit /\ EngineInit /\ TasksInit /\ CkptQuiet /\ GpuInit /\ RouterQuiet /\ BridgeInit /\ NodesQuiet /\ RegistryInit /\ crashes = 0

NextGraph ==
    \/ \E s \in Sessions, g \in Goals, x \in UserContexts :
           StartCall(s, g, x) /\ UNCHANGED <<taskVars, ckptVars, gpuVars, routerVars, bridgeVars, nodeVars, registryVars, crashes>>
    \/ \E s \in Sessions, x \in {EmptyDict, [resumed |-> TRUE]} :
           ResumeCall(s, x) /\ UNCHANGED <<taskVars, ckptVars, gpuVars, routerVars, bridgeVars, nodeVars, registryVars, crashes>>
    \/ Load /\ UNCHANGED <<taskVars, ckptVars, gpuVars, routerVars, bridgeVars, nodeVars, registryVars, crashes>>
    \/ Loop /\ UNCHANGED <<taskVars, ckptVars, gpuVars, routerVars, bridgeVars, nodeVars, registryVars, crashes>>
    \/ BackendDone /\ UNCHANGED <<taskVars, ckptVars, gpuVars, routerVars, bridgeVars, nodeVars, registryVars, crashes>>
    \/ Save /\ UNCHANGED <<taskVars, ckptVars, gpuVars, routerVars, bridgeVars, nodeVars, registryVars, crashes>>
    \/ RunTake /\ UNCHANGED <<taskVars, ckptVars, gpuVars, routerVars, bridgeVars, nodeVars, registryVars, crashes>>
    \/ \E s \in Sessions : CancelCall(s) /\ UNCHANGED <<taskVars, ckptVars, gpuVars, routerVars, bridgeVars, nodeVars, registryVars, crashes>>
    \/ Tick /\ UNCHANGED <<taskVars, ckptVars, gpuVars, routerVars, bridgeVars, nodeVars, registryVars, crashes>>
    \/ GraphCrash /\ UNCHANGED <<taskVars, ckptVars, gpuVars, routerVars, bridgeVars, nodeVars, registryVars>>

SpecGraph == InitGraph /\ [][NextGraph]_vars

restOfGpu == <<engineVars, taskVars, ckptVars, graphVars, routerVars, bridgeVars, nodeVars, registryVars, crashes>>

InitGpu ==
    GpuInit /\ EngineInit /\ TasksInit /\ CkptQuiet /\ GraphInit /\ RouterQuiet /\ BridgeInit /\ NodesQuiet /\ RegistryInit /\ crashes = 0

NextGpu ==
    \/ \E t \in GpuTasks, f \in Families :
           Acquire(t, f, SessionOf[t]) /\ UNCHANGED restOfGpu
    \/ \E t \in GpuTasks : Wake(t) /\ UNCHANGED restOfGpu
    \/ \E t \in GpuTasks : Release(t) /\ UNCHANGED restOfGpu
    \/ \E t \in GpuTasks : GpuCancel(t) /\ UNCHANGED restOfGpu
    \/ GpuTick /\ UNCHANGED restOfGpu

SpecGpu == InitGpu /\ [][NextGpu]_vars

restOfRouter == <<engineVars, taskVars, ckptVars, graphVars, gpuVars, bridgeVars, nodeVars, registryVars, crashes>>

InitRouter ==
    RouterInit /\ EngineInit /\ TasksInit /\ CkptQuiet /\ GraphInit /\ GpuInit /\ BridgeInit /\ NodesQuiet /\ RegistryInit /\ crashes = 0

NextRouter ==
    \/ \E policy \in Policies : SetPolicy(policy) /\ UNCHANGED restOfRouter
    \/ \E role \in Roles : Invoke(role) /\ UNCHANGED restOfRouter
    \/ Round /\ UNCHANGED restOfRouter
    \/ Achat /\ UNCHANGED restOfRouter
    \/ RaiseAllFailed /\ UNCHANGED restOfRouter

SpecRouter == InitRouter /\ [][NextRouter]_vars

restOfBridge == <<engineVars, taskVars, ckptVars, graphVars, gpuVars, routerVars, nodeVars, registryVars, crashes>>

InitBridge ==
    BridgeInit /\ EngineInit /\ TasksInit /\ CkptQuiet /\ GraphInit /\ GpuInit /\ RouterQuiet
        /\ NodesQuiet /\ RegistryInit /\ crashes = 0

NextBridge ==
    \E b \in Bridges, tool_call \in ToolCallInputs :
        Convert(b, tool_call) /\ UNCHANGED restOfBridge

\* the bridge submitting workflows to its engine
NextSubmitAndWait ==
    \E spec \in Workflows, correlation_id \in CorrIds \cup {NoCid} :
        SubmitAndWait(spec, correlation_id)
            /\ UNCHANGED <<taskVars, ckptVars, graphVars, gpuVars, routerVars, nodeVars,
                           registryVars, crashes>>

SpecSubmitAndWait == InitBridge /\ [][NextSubmitAndWait]_vars

SpecBridge == InitBridge /\ [][NextBridge]_vars

restOfNodes == <<engineVars, taskVars, ckptVars, graphVars, gpuVars, routerVars, bridgeVars, registryVars, crashes>>

InitNodes ==
    NodesInit /\ EngineInit /\ TasksInit /\ CkptQuiet /\ GraphInit /\ GpuInit /\ RouterQuiet
        /\ BridgeInit /\ RegistryInit /\ crashes = 0

NextNodes ==
    \/ PlannerTick /\ UNCHANGED restOfNodes
    \/ DeciderTick /\ UNCHANGED restOfNodes
    \/ ExecutorBegin /\ UNCHANGED restOfNodes
    \/ \E outcome \in Outcomes, advance \in BOOLEAN :
           ExecutorFinish(outcome, advance) /\ UNCHANGED restOfNodes
    \/ ReporterTick /\ UNCHANGED restOfNodes

SpecNodes == InitNodes /\ [][NextNodes]_vars

restOfRegistry == <<engineVars, taskVars, ckptVars, graphVars, gpuVars, routerVars, bridgeVars, nodeVars, crashes>>

InitRegistry ==
    RegistryInit /\ EngineInit /\ TasksInit /\ CkptQuiet /\ GraphInit /\ GpuInit /\ RouterQuiet
        /\ BridgeInit /\ NodesQuiet /\ crashes = 0

NextRegistry ==
    \/ \E name \in SchemaNames, model_class \in ModelClasses, version \in SchemaVersions :
           Register(name, model_class, version) /\ UNCHANGED restOfRegistry
    \/ \E name \in SchemaNames, version \in SchemaVersions \cup {NoVersion} :
           SchemaGet(name, version) /\ UNCHANGED restOfRegistry

SpecRegistry == InitRegistry /\ [][NextRegistry]_vars

\* every task that is granted the lock enters the body and leaves it again
SpecGpuFair ==
    /\ SpecGpu
    /\ \A t \in GpuTasks :
           /\ WF_vars(Wake(t) /\ UNCHANGED restOfGpu)
           /\ WF_vars(Release(t) /\ UNCHANGED restOfGpu)

\* ------------------------------------------------------------------------
\* Claims about WorkflowEngine.submit (SpecEngine)
\* ------------------------------------------------------------------------

\* C2: when a submit begins while another submit with the same correlation
\* id is still inside the workflow execution, the backend is invoked exactly
\* once for that id and both callers get equal results.
C2_ExactlyOnceWhenConcurrent ==
    \A t \in Tasks : \A u \in overlap[t] :
        (tpc[t] = "returned" /\ tpc[u] = "returned")
            => (Calls(tcall[t].cid) = 1 /\ tres[t] = tres[u])

AputOver(t) ==
    /\ ccall[t].op = "aput"
    /\ \/ cpc[t] \in {"returned", "raised"}
       \/ cpc[t] = "aput_aget_wait" /\ lock[ccall[t].obj] = t

\* state r has every key of x, with the value x gives it
AgreesOn(x, r) == r # None /\ \A k \in DOMAIN x : k \in DOMAIN r /\ r[k] = x[k]

\* what read(session) returns to a reader that has nothing cached
FreshRead == IF journal = <<>> THEN None ELSE Replay(journal)

StateOrEmpty(s) == IF s = None THEN EmptyDict ELSE s

\* C4: read after write(session, X), for an X that differs from the state
\* written before, returns a state equal to X on every key of X.
C4_ReadAfterWrite ==
    \A t \in Tasks :
        (AputOver(t)
            /\ DictDiff(StateOrEmpty(ccall[t].before), ccall[t].new_state) # EmptyDict)
            => AgreesOn(ccall[t].new_state, FreshRead)

\* C5: after a crash during write(session, X), a read by the new process
\* returns X or the complete state from before the write.
C5_CrashAtomic ==
    \A t \in Tasks :
        (cpc[t] = "returned" /\ ccall[t].op = "aget" /\ interrupted # {})
            => \E w \in interrupted :
                   \/ cres[t] = w.before
                   \/ AgreesOn(w.new_state, cres[t])

\* C5's case: a write of a different state was cut short by a crash and the
\* new process has read the complete previous state
C5_Witness ==
    \E t \in Tasks : \E w \in interrupted :
        /\ cpc[t] = "returned"
        /\ ccall[t].op = "aget"
        /\ w.before # None
        /\ DictDiff(w.before, w.new_state) # EmptyDict
        /\ cres[t] = w.before

\* C6: after a write, the replay of every journal record in file order
\* equals the live state, the one the write left in the cache.
C6_ReplayEqualsLive ==
    \A t \in Tasks :
        AputOver(t)
            => /\ cached[ccall[t].obj] = ccall[t].new_state
               /\ Replay(journal) = cached[ccall[t].obj]

\* the task is inside the `async with self._lock` of aput
InAput(t) == ccall[t].op = "aput" /\ lock[ccall[t].obj] = t

\* C7: writes to one session exclude each other, through one object or two.
C7_WritesExclusive ==
    \A t, u \in Tasks :
        (t # u /\ CkptSession(ccall[t].obj) = CkptSession(ccall[u].obj))
            => ~(InAput(t) /\ InAput(u))

\* ------------------------------------------------------------------------
\* Claims about the graph runtime (SpecGraph)
\* ------------------------------------------------------------------------

\* C1: whatever crash, restart and re-entry of a session happen, no plan
\* step has its backend execution started more than once.
C1_StepStartedOnce == \A key \in DOMAIN backendCalls : backendCalls[key] <= 1

\* C8: a resume of a session that has a checkpoint in the store, whichever
\* process wrote it, does not return an error: it continues the run.
C8_ResumeFindsCheckpoint ==
    (rcall.kind = "resume" /\ rpc = "returned" /\ rcall.had)
        => rresult.status # "error"

\* C9: a run re-entered from a checkpoint starts at the node the edge table
\* selects after the last node whose state was persisted, in that state.
C9_ReentryAtSuccessor ==
    reentry # NoState
        => /\ reentry.node = NextNode(reentry.last.node, reentry.last.state)
           /\ reentry.state = reentry.last.state

\* C30: the checkpoint get returns for a thread is the one the most recent
\* put for that thread stored, also when several puts fell into one second.
C30_GetReturnsLastPut ==
    reentry # NoState
        => /\ reentry.state = reentry.last.state
           /\ reentry.node = reentry.last.next_node

\* C25: in every checkpoint of every session the current step is at most
\* the length of the plan.
C25_StepWithinPlan ==
    \A i \in DOMAIN db : db[i].state.current_step <= Len(db[i].state.plan)

\* C25's case: a checkpoint written when execute_node had advanced past
\* the last step of the plan
C25_Witness ==
    \E i \in DOMAIN db :
        /\ db[i].node = "execute"
        /\ db[i].state.plan # <<>>
        /\ db[i].state.current_step = Len(db[i].state.plan)

\* the call in progress is a start of a session whose first run, with the
\* same goal, has completed
StartAgain ==
    /\ rcall.kind = "start"
    /\ rcall.prior # None
    /\ rcall.prior.goal = rcall.goal
    /\ rcall.prior.result.status = "completed"

CancelledRun ==
    /\ rcall.kind = "start"
    /\ rpc \notin {"idle", "returned"}
    /\ sessions[rcall.session] = "cancelled"

\* C11: after a cancel during a run, the step in flight ends, no further
\* step is started and the run ends with status cancelled.
C11_CancelStopsRun ==
    [][ CancelledRun
          => /\ (rpc # "backend" => rpc' # "backend")
             /\ (rpc' = "returned" => rresult'.status = "cancelled") ]_vars

\* C12: in one process, a session whose status is completed or failed keeps
\* that status whatever is called on it, and no step is started for it.
C12_TerminalStatusStays ==
    [][ \A s \in DOMAIN sessions :
           (sessions[s] \in {"completed", "failed"} /\ crashes' = crashes)
               => /\ s \in DOMAIN sessions'
                  /\ sessions'[s] = sessions[s]
                  /\ (rcall'.session = s => rpc' # "backend") ]_vars

\* ------------------------------------------------------------------------
\* Claims about the GPU lock (SpecGpu, SpecGpuFair)
\* ------------------------------------------------------------------------

\* the tasks inside the body of gpu_lock for family f
InBody(f) == {t \in GpuTasks : gpc[t] = "body" /\ gcall[t].family = f}

\* the tasks that hold the grant of family f: in the body or about to enter
Holding(f) == {t \in GpuTasks : gpc[t] \in {"granted", "body"} /\ gcall[t].family = f}

\* the tasks waiting for family f
WaitingFor(f) == {t \in GpuTasks : gpc[t] = "waiting" /\ gcall[t].family = f}

\* C13: for each family at most one task is inside the body of gpu_lock.
C13_OneInBody == \A f \in Families : Cardinality(InBody(f)) <= 1

\* C13's case: a task is in the body while a task of the same session and a
\* task of another session wait for the same family
C13_Witness ==
    \E f \in Families : \E t \in InBody(f) : \E u, v \in WaitingFor(f) :
        gcall[u].session = gcall[t].session /\ gcall[v].session # gcall[t].session

\* a step type that runs on the GPU (family "sd")
NeedsGpu(workflow) ==
    /\ workflow # BadYaml
    /\ \E i \in DOMAIN workflow.steps : workflow.steps[i].type \in {"txt2img", "upscale"}

\* C14: a backend execution of a GPU step runs while the lock of its family
\* is held, so no two GPU executions of one family run at the same time.
C14_GpuStepUnderLock ==
    \A t \in Tasks :
        (tpc[t] = "executing" /\ NeedsGpu(tcall[t].workflow))
            => /\ gholder["sd"] # NoHolder
               /\ \A u \in Tasks \ {t} :
                      ~(tpc[u] = "executing" /\ NeedsGpu(tcall[u].workflow))

\* C15: the lock of a family is granted in the order of the acquire calls:
\* every task still waiting called after the entry granted last, and the
\* next grant comes only when the task granted before has released.
C15_GrantsInOrder ==
    \A f \in Families :
        /\ \A u \in WaitingFor(f) : gcall[u].ticket > gserving[f]
        /\ Cardinality(Holding(f)) <= 1

\* C15's case: of two tasks that waited for a family the first was granted
\* on a release and the second still waits
C15_Witness ==
    \E f \in Families : \E t \in Holding(f) : \E u \in WaitingFor(f) :
        /\ gpc[t] = "granted"
        /\ gcall[t].session # gcall[u].session
        /\ gcall[t].ticket < gcall[u].ticket

\* C16: a waiter is granted a family's lock only when at least the fairness
\* window has passed since the previous holder, the one releasing, acquired.
C16_GrantAfterWindow ==
    [][ \A t \in GpuTasks :
           (gpc[t] = "waiting" /\ gpc'[t] = "granted")
               => gnow - gholderAt[gcall[t].family] >= FairnessWindow ]_vars

\* C17: as long as no task waiting for a family is cancelled, every task
\* that waits for that family's lock is granted it.
C17_NoStarvation ==
    \A t \in GpuTasks : \A f \in Families :
        (gpc[t] = "waiting" /\ gcall[t].family = f /\ ~gcancelled[f])
            ~> (gpc[t] \in {"granted", "body"} \/ gcancelled[f])

\* C17's case: without any cancellation, the last of three acquire calls on
\* one family has been granted after the other two released
C17_Witness ==
    \E f \in Families : \E t \in Holding(f) :
        /\ ~gcancelled[f]
        /\ gcall[t].ticket = 3
        /\ gserving[f] = 3
        /\ \A u \in GpuTasks \ {t} : gpc[u] = "idle"
        /\ \A g \in Families \ {f} : gserving[g] = 0

\* ------------------------------------------------------------------------
\* Claims about ModelRouter (SpecRouter)
\* ------------------------------------------------------------------------

\* the step in which the call of the role returns or raises
Returns(role) == mpc # "idle" /\ mpc' = "idle" /\ mrole = role

\* every level of the role is configured with an initialised provider and
\* the levels are visited from the primary on
AllLevelsUsable(role) ==
    /\ role \in DOMAIN Models
    /\ current_policy = "complexity_based"
    /\ \A l \in 0..Len(Models[role].fallback) : Usable(role, l)

\* C18: when the primary fails on every attempt and the first fallback
\* succeeds, one call invokes the primary max_attempts times, then the
\* fallback once, and returns the fallback's response.
C18_FallbackCascade ==
    [][ \A role \in DOMAIN Models :
           (/\ Returns(role)
            /\ AllLevelsUsable(role)
            /\ Models[role].primary.provider \in failing
            /\ Models[role].fallback[1].provider \notin failing)
               => /\ achatCalls'[Models[role].primary.provider] = max_attempts
                  /\ achatCalls'[Models[role].fallback[1].provider] = 1
                  /\ mresult' = Text(Models[role].fallback[1].provider) ]_vars

\* C19: when every provider of the role fails on every attempt, one call
\* invokes each level max_attempts times, none more often, and then raises
\* the error that all fallbacks failed.
C19_AllFallbacksFail ==
    [][ \A role \in DOMAIN Models :
           (/\ Returns(role)
            /\ AllLevelsUsable(role)
            /\ \A l \in 0..Len(Models[role].fallback) :
                   get_model_config(role, l).provider \in failing)
               => /\ \A l \in 0..Len(Models[role].fallback) :
                         achatCalls'[get_model_config(role, l).provider] = max_attempts
                  /\ mresult' = RuntimeError(role, ApiError) ]_vars

\* C20: after five failed calls in a row to a provider, the provider is not
\* invoked again before the reset timeout of 30 s has passed since the fifth.
C20_ShortCircuitAfterFive ==
    [][ \A p \in ProviderNames :
           (Len(failedAt[p]) >= 5 /\ mnow - failedAt[p][5] < 30)
               => achatCalls'[p] <= achatCalls[p] ]_vars

\* ------------------------------------------------------------------------
\* Claims about GraphEngineBridge.tool_call_to_steps (SpecBridge)
\* ------------------------------------------------------------------------

\* the index of the step called name in steps, or 0 when there is none
IndexOf(steps, name) ==
    IF \E i \in DOMAIN steps : steps[i].name = name
    THEN CHOOSE i \in DOMAIN steps : steps[i].name = name
    ELSE 0

\* C28: for every known tool, the list tool_call_to_steps returns has each
\* step after every step named in its depends_on, so a backend running the
\* list in order never runs a step before its dependencies.
C28_DependenciesFirst ==
    \A b \in Bridges :
        bcall[b].name \in KnownTools
            => \A i \in DOMAIN bsteps[b] :
                   \A k \in DOMAIN bsteps[b][i].depends_on :
                       LET at == IndexOf(bsteps[b], bsteps[b][i].depends_on[k])
                       IN  at > 0 /\ at < i

AtCheckpoint == npc \in {"decider", "executor", "reporter", "end"}

\* the plan item with this id is completed
CompletedId(id) ==
    \E j \in DOMAIN nstate.plan :
        nstate.plan[j].id = id /\ nstate.plan[j].status = "completed"

\* C21: at every checkpoint, each plan item with status completed has all
\* of its dependencies in status completed.
C21_CompletedAfterDependencies ==
    AtCheckpoint
        => \A i \in DOMAIN nstate.plan :
               nstate.plan[i].status = "completed"
                   => \A k \in DOMAIN nstate.plan[i].dependencies :
                          CompletedId(nstate.plan[i].dependencies[k])

C21_Witness ==
    /\ AtCheckpoint
    /\ \E i \in DOMAIN nstate.plan :
           /\ nstate.plan[i].status = "completed"
           /\ nstate.plan[i].dependencies # <<>>
    /\ \E j \in DOMAIN nstate.plan : nstate.plan[j].status = "failed"

\* C22: at every checkpoint, a session whose error list holds an error of
\* severity critical has the status failed.
C22_CriticalMeansFailed ==
    (AtCheckpoint /\ has_critical_errors(nstate)) => nstate.is_failed

\* C23: at every checkpoint, used_retries <= retry_budget unless the
\* session's status is failed.
C23_RetriesWithinBudget ==
    AtCheckpoint
        => (nstate.used_retries <= nstate.retry_budget \/ nstate.is_failed)

C23_Witness ==
    /\ AtCheckpoint
    /\ nstate.used_retries = nstate.retry_budget
    /\ ~nstate.is_failed
    /\ ndecision.reason = "Retry budget exhausted"

\* C24: a failed plan item is set to running again only if its retry_count
\* is below its max_retries, and a completed plan item is never set to
\* running again.
C24_RunningOnlyWhenRetryable ==
    [][\A i \in DOMAIN nstate.plan :
           (i \in DOMAIN nstate'.plan /\ nstate'.plan[i].status = "running")
               => /\ nstate.plan[i].status # "completed"
                  /\ nstate.plan[i].status = "failed"
                         => nstate.plan[i].retry_count < nstate.plan[i].max_retries]_vars

\* C26: when the planner produces a plan of length 0, the session ends with
\* status failed and exactly one error record, and the executor is never
\* invoked.
C26_EmptyPlanFails ==
    (npc = "end" /\ nstate.plan = <<>>)
        => /\ nstate.is_failed
           /\ Len(nstate.errors) = 1
           /\ nticks = 0

\* C27: a step whose arguments fail validation causes no backend invocation
\* and is never retried: after the validation failure the decider does not
\* select that step again.
C27_ValidationNotRetried ==
    [][/\ nrejected' \cap ninvoked' = {}
       /\ npc = "decider" => ndecision'.next_step \notin nrejected]_vars

\* ------------------------------------------------------------------------
\* Further claims about DeltaCheckpointer (SpecCkpt)
\* ------------------------------------------------------------------------

\* C32: a single call of aput, with the lock free and no other caller,
\* returns: the call never waits in acquire for the lock it holds itself,
\* which nobody else can release.
C32_AputNeverWaitsOnOwnLock ==
    \A t \in Tasks :
        cpc[t] \in Waiting
            => ~(lock[ccall[t].obj] = t /\ t \in Range(waiters[ccall[t].obj]))

\* ------------------------------------------------------------------------
\* Claims about SchemaRegistry (SpecRegistry)
\* ------------------------------------------------------------------------

\* C31: registering a new version under an existing name never removes or
\* changes an older version: every definition get(name, version) returned
\* before the register is returned after it, and get(name) returns the
\* definition registered last.
C31_OlderVersionsKept ==
    [][registers' # registers
          => /\ \A name \in SchemaNames, version \in SchemaVersions :
                    get(name, version) # NoFunctionDef
                        => get_in(_schemas', _version_history', name, version)
                               = get(name, version)
             /\ get_in(_schemas', _version_history', last_register'.name, NoVersion)
                    = last_register'.function_def
             /\ get(last_register'.name, last_register'.version) = NoFunctionDef
                    => get_in(_schemas', _version_history',
                              last_register'.name, last_register'.version)
                           = last_register'.function_def]_vars

C31_Witness ==
    /\ registers = 2
    /\ last_register.name = "versioned_tool"
    /\ last_register.version = "2.0.0"
    /\ last_register.function_def.parameters = "ComplexToolInput"
    /\ got.name = "versioned_tool"
    /\ got.version = "1.0.0"
    /\ got.function_def = _pydantic_to_function_def("TestToolInput", "versioned_tool")
    /\ got.function_def = get("versioned_tool", "1.0.0")

\* ------------------------------------------------------------------------
\* Further claims about the GPU lock (SpecGpu)
\* ------------------------------------------------------------------------

\* C33: a task cancelled while it waits in acquire is never recorded as the
\* holder: no grant takes the queue entry of a cancelled task and makes its
\* session the holder, which would leave the waiters behind it without a
\* task to release the lock.
C33_CancelledNeverHolder ==
    [][\A f \in Families :
           (gqueue[f] # <<>> /\ Len(gqueue'[f]) < Len(gqueue[f]))
               => gpc[Head(gqueue[f]).task] # "cancelled"]_vars

\* ------------------------------------------------------------------------
\* Further claims about WorkflowEngine.submit (SpecEngine)
\* ------------------------------------------------------------------------

\* C37: only completed executions are recorded under a correlation id: no
\* cached result is an error, so that a later submit with the id of a
\* failed execution runs the workflow again.
C37_OnlyCompletedRecorded ==
    \A cid \in DOMAIN executions : executions[cid].status # "error"

\* ------------------------------------------------------------------------
\* Further claims about the planner, decider and executor nodes (SpecNodes)
\* ------------------------------------------------------------------------

\* C34: in every tick, the item the executor marks running and executes is
\* the item the decider selected in that tick.
C34_ExecutorRunsSelected ==
    [][(npc = "executor" /\ npc' = "service")
           => \A i \in DOMAIN nstate.plan :
                  (nstate.plan[i].status # "running" /\ nstate'.plan[i].status = "running")
                      => nstate.plan[i].id = ndecision.next_step]_vars

\* the failed items the decider may retry
RetryEligible(state) ==
    {i \in DOMAIN state.plan :
        /\ state.plan[i].status = "failed"
        /\ state.plan[i].retry_count < state.plan[i].max_retries}

\* C35: whenever some plan item is failed with retry_count < max_retries,
\* no critical error is present and the retry budget is not exhausted, the
\* next decider tick selects a failed item for a retry and does not stop
\* the run.
C35_RetrySelected ==
    [][(/\ npc = "decider"
        /\ RetryEligible(nstate) # {}
        /\ ~has_critical_errors(nstate)
        /\ can_retry(nstate))
           => /\ ndecision'.should_continue
              /\ \E i \in RetryEligible(nstate) :
                     ndecision'.next_step = nstate.plan[i].id]_vars

\* the items eligible at a decider tick: the retry candidates and the
\* pending items whose dependencies are all completed
Eligible(state) ==
    RetryEligible(state)
        \cup {i \in DOMAIN state.plan :
                 /\ state.plan[i].status = "pending"
                 /\ _dependencies_satisfied(state.plan[i], state)}

\* C39: among the plan items eligible at a decider tick, the item selected
\* is one with the lowest priority value (the action's entry in the priority
\* table plus 2 * retry_count).
C39_LowestPriorityValueSelected ==
    [][(npc = "decider" /\ ndecision'.next_step # NoStep)
           => \E i \in Eligible(nstate) :
                  /\ nstate.plan[i].id = ndecision'.next_step
                  /\ \A j \in Eligible(nstate) :
                         _get_step_priority(nstate.plan[i])
                             <= _get_step_priority(nstate.plan[j])]_vars

\* C38: when the decider stops a run because current_step >= max_steps, the
\* reporter renders the success banner if no plan item is failed and the
\* partial banner if some plan item is failed.
C38_BannerAtMaxSteps ==
    (npc = "end" /\ ndecision.reason = "Maximum steps reached")
        => _create_status_message(nstate) =
               IF get_failed_steps(nstate) = {} THEN "Status: Erfolgreich"
               ELSE "Status: Teilweise erfolgreich"

\* ------------------------------------------------------------------------
\* Claims about GraphEngineBridge.submit_and_wait (SpecSubmitAndWait)
\* ------------------------------------------------------------------------

\* C40: whenever the workflow engine ran every step of the submitted
\* workflow without error, submit_and_wait returns a result with
\* success = true.
C40_SuccessWhenEngineSucceeds ==
    (waits > 0 /\ bengine # None /\ bengine.status = "success") => bresult.success

\* ------------------------------------------------------------------------
\* Claims about the loop of StateGraph.ainvoke (SpecGraph)
\* ------------------------------------------------------------------------

\* the nodes the current call has executed and checkpointed, in order: put
\* stores one row per executed node
ExecutedNodes ==
    [i \in 1..(Len(db) - rcall.rows) |-> db[rcall.rows + i].node]

\* the current call entered the loop at the planner: no checkpoint was
\* loaded, or the loaded one names the planner
StartsAtPlanner ==
    /\ rcall.kind # "none"
    /\ rpc \in {"loop", "backend", "save", "returned"}
    /\ "error" \notin DOMAIN rresult
    /\ reentry = NoState \/ reentry.node = "plan"

\* C36: a run of the loop that starts at the planner executes at most
\* len(plan) + 2 nodes, and when it returns the reporter has been executed
\* exactly once, as the last node, after the planner -- whether every step
\* succeeded or a step failed.
C36_ReporterOnceAndLast ==
    StartsAtPlanner =>
        LET executedNodes == ExecutedNodes
            n == Len(executedNodes)
        IN  /\ n <= Len(rstate.plan) + 2
            /\ \A i \in 1..(n - 1) : executedNodes[i] # "report"
            /\ rpc = "returned" =>
                   /\ n >= 3
                   /\ executedNodes[1] = "plan"
                   /\ executedNodes[n] = "report"
                   /\ rnode = END

\* a run from the planner has returned after a failed step
C36_Witness ==
    /\ StartsAtPlanner
    /\ rpc = "returned"
    /\ rstate.status = "failed"
    /\ ExecutedNodes[Len(ExecutedNodes)] = "report"

====
